---- MODULE Spec2Model ----
(***************************************************************************)
(* Garden SDK: the notebook-metadata stores and base-image resolution.     *)
(*                                                                         *)
(* Three metadata stores live side by side in the source:                  *)
(*   "cli"    garden_ai/app/notebook.py   a cell tagged garden_metadata    *)
(*            whose Python source is exec'd to read the record;            *)
(*   "doc"    garden_ai/notebook_metadata.py   the notebook's document     *)
(*            metadata key garden_metadata plus a widget cell;             *)
(*   "legacy" garden_ai/metadata.py   a cell tagged garden_metadata_cell   *)
(*            holding JSON inside a docstring plus hidden cell metadata.   *)
(*                                                                         *)
(* A notebook file is modelled by what nbformat.read returns for it: the   *)
(* ordered cells and the document metadata.  The model covers files that   *)
(* nbformat can parse (on a ValueError every operation prints a message,   *)
(* exits with code 1 and leaves the file alone).                           *)
(*                                                                         *)
(* Values.  An Optional[T] is a sequence of length at most one: None is    *)
(* <<>> and a value x is <<x>>.  A Python str is a sequence of characters. *)
(*                                                                         *)
(* Specifications.  Spec: add, set and get of the three stores, on one     *)
(* notebook.  SpecResolve: start, publish and debug up to and including    *)
(* _get_base_image_uri, on notebooks of the cli store.  SpecBuild: start,  *)
(* publish and debug of the cli store from the command line to their end,  *)
(* one step per stage of the image build.  SpecCodec: reading, writing and *)
(* editing requirements with garden_ai/notebook_metadata.py.  SpecServe:   *)
(* start and debug from the started container to the end of the command,   *)
(* with SIGINT delivered at any point.  SpecFailure: a build that fails    *)
(* and what DockerClientSession prints for it.  SpecToggle: the import of  *)
(* garden_ai/backend_client.py and calls of BackendClient's methods.       *)
(***************************************************************************)
EXTENDS Integers, Sequences, FiniteSets, TLC

VARIABLES
    impl,   \* which of the three stores this run of the program uses
    nb,     \* the notebook file: [cells, gm]
    last,   \* the last operation performed: its arguments and what it returned
    run     \* the command under way: where it stands and what it has done so far

vars == <<impl, nb, last, run>>

----------------------------------------------------------------------------
(* Bounds of the model *)

MaxUriLen == 1      \* image URIs are strings of at most this many characters
MaxReqLen == 1      \* requirement contents hold at most this many entries
NumUserCells == 2   \* a notebook holds this many cells of the user's

----------------------------------------------------------------------------
(* Optional values and Python truthiness *)

None == <<>>
Some(x) == <<x>>

\* Python's `if x:` for an Optional[str]: None and "" are both false.
Truthy(o) == o # None /\ o[1] # <<>>

----------------------------------------------------------------------------
(* Characters.  DQ is the double quote and BS the backslash; "z" stands for *)
(* any character that is neither of them, nor a string prefix (r, b, u, f), *)
(* nor the letter of a recognised escape sequence.                          *)

DQ == "\""
BS == "\\"
Chars == {"z", DQ, BS}

RECURSIVE StrsOfLen(_)
StrsOfLen(n) ==
    IF n = 0 THEN {<<>>}
    ELSE {Append(s, c) : s \in StrsOfLen(n - 1), c \in Chars}

StrsUpTo(n) == UNION {StrsOfLen(k) : k \in 0..n}

\* The image URIs a caller may pass.
Uris == StrsUpTo(MaxUriLen)

----------------------------------------------------------------------------
(* Python's evaluation of the right-hand side of an assignment in the       *)
(* metadata cell, as exec() performs it.  The text is a sequence of         *)
(* characters; the token None is the single symbol "None".                  *)

PyErr == [ok |-> FALSE, val |-> None, next |-> 0]

\* Inside a "..." literal from position i; acc is the value decoded so far.
\* The literal ends at the first unescaped quote; a backslash takes the next
\* character with it (\" is a quote, \\ a backslash, \z stays \z); the end
\* of the line inside the literal is a SyntaxError.
RECURSIVE LexShort(_, _, _)
LexShort(s, i, acc) ==
    IF i > Len(s) THEN PyErr
    ELSE IF s[i] = DQ THEN [ok |-> TRUE, val |-> Some(acc), next |-> i + 1]
    ELSE IF s[i] = BS THEN
        IF i = Len(s) THEN PyErr
        ELSE IF s[i + 1] \in {DQ, BS} THEN LexShort(s, i + 2, Append(acc, s[i + 1]))
        ELSE LexShort(s, i + 2, acc \o <<BS, s[i + 1]>>)
    ELSE LexShort(s, i + 1, Append(acc, s[i]))

\* Inside a """...""" literal: it ends at the next three unescaped quotes.
\* The lines that follow the assignment never hold three quotes in a row
\* (json.dumps never writes them), so a literal still open at the end of
\* the line is never closed: a SyntaxError.
RECURSIVE LexLong(_, _, _)
LexLong(s, i, acc) ==
    IF i > Len(s) THEN PyErr
    ELSE IF i + 2 <= Len(s) /\ s[i] = DQ /\ s[i + 1] = DQ /\ s[i + 2] = DQ
        THEN [ok |-> TRUE, val |-> Some(acc), next |-> i + 3]
    ELSE IF s[i] = BS THEN
        IF i = Len(s) THEN PyErr
        ELSE IF s[i + 1] \in {DQ, BS} THEN LexLong(s, i + 2, Append(acc, s[i + 1]))
        ELSE LexLong(s, i + 2, acc \o <<BS, s[i + 1]>>)
    ELSE LexLong(s, i + 1, Append(acc, s[i]))

\* One string literal starting at position i (s[i] is a quote).
LexLiteral(s, i) ==
    IF i + 2 <= Len(s) /\ s[i + 1] = DQ /\ s[i + 2] = DQ
        THEN LexLong(s, i + 3, <<>>)
        ELSE LexShort(s, i + 1, <<>>)

\* Adjacent string literals are concatenated; anything else after a literal
\* (a name, a stray backslash) is a SyntaxError.
RECURSIVE PyConcat(_, _, _)
PyConcat(s, i, acc) ==
    IF i > Len(s) THEN [ok |-> TRUE, val |-> Some(acc), next |-> i]
    ELSE IF s[i] # DQ THEN PyErr
    ELSE LET lit == LexLiteral(s, i)
         IN  IF ~lit.ok THEN PyErr
             ELSE PyConcat(s, lit.next, acc \o lit.val[1])

\* The value of the expression `s`: [ok, val] with val an Optional[str];
\* ok is FALSE when exec raises (SyntaxError, NameError).
PyEvalStrExpr(s) ==
    IF s = <<"None">> THEN [ok |-> TRUE, val |-> None]
    ELSE IF s = <<>> \/ s[1] # DQ THEN [ok |-> FALSE, val |-> None]
    ELSE LET r == PyConcat(s, 1, <<>>)
         IN  [ok |-> r.ok, val |-> r.val]

\* f'notebook_image_uri = "{base_image_name}"\n': the text after the "= ".
FormatUriLine(u) == <<DQ>> \o u \o <<DQ>>

----------------------------------------------------------------------------
(* Requirements data: {"format": ..., "contents": [...]}.  The entries of   *)
(* contents are leaves: a package string, or, in a conda document loaded by *)
(* yaml.safe_load, also a null or a boolean.                                *)

NoneLeaf == "<None>"
TrueLeaf == "<True>"
Packages == {"pandas"}
Formats == {"pip", "conda", "poetry"}   \* "poetry": a format the code does not know
Leaves == Packages \cup {NoneLeaf, TrueLeaf}

RECURSIVE SeqsOfLen(_, _)
SeqsOfLen(S, n) ==
    IF n = 0 THEN {<<>>}
    ELSE {Append(s, x) : s \in SeqsOfLen(S, n - 1), x \in S}

SeqsUpTo(S, n) == UNION {SeqsOfLen(S, k) : k \in 0..n}

Reqs ==
    {[format |-> "pip", contents |-> c] : c \in SeqsUpTo(Packages, MaxReqLen)}
    \cup {[format |-> "conda", contents |-> c] : c \in SeqsUpTo(Leaves, MaxReqLen)}

OptReqs == {None} \cup {Some(q) : q \in Reqs}

----------------------------------------------------------------------------
(* JSON text.  A document is a sequence of tokens; a string token is the    *)
(* string between its quotes.                                               *)

Quoted(a) ==
    CASE a = "pandas" -> "\"pandas\""
      [] a = "pip" -> "\"pip\""
      [] a = "conda" -> "\"conda\""
      [] a = "poetry" -> "\"poetry\""

QuotedToks == {Quoted(a) : a \in Packages \cup Formats}

Unquoted(t) == CHOOSE a \in Packages \cup Formats : Quoted(a) = t

\* json.dumps of one leaf.
JsonLeaf(v) ==
    CASE v = NoneLeaf -> "null"
      [] v = TrueLeaf -> "true"
      [] OTHER -> Quoted(v)

\* json.dumps(requirements_data, indent=2): the braces and brackets, the
\* format and the entries; the keys are fixed and left out.
JsonDumpsReq(q) ==
    <<"{", Quoted(q.format), "[">>
        \o [i \in 1..Len(q.contents) |-> JsonLeaf(q.contents[i])]
        \o <<"]", "}">>

IsReqText(t) ==
    /\ Len(t) >= 5
    /\ t[1] = "{" /\ t[3] = "[" /\ t[Len(t) - 1] = "]" /\ t[Len(t)] = "}"

ReqTextLeaves(t) == SubSeq(t, 4, Len(t) - 2)

\* json.loads of one leaf token: [ok, val].
JsonLoadsLeaf(t) ==
    CASE t = "null" -> [ok |-> TRUE, val |-> NoneLeaf]
      [] t = "true" -> [ok |-> TRUE, val |-> TrueLeaf]
      [] t \in QuotedToks -> [ok |-> TRUE, val |-> Unquoted(t)]
      [] OTHER -> [ok |-> FALSE, val |-> NoneLeaf]

\* Python's evaluation of one leaf token inside exec(): null and true are
\* names nobody defined (NameError); None and True are the constants.
PyEvalLeaf(t) ==
    CASE t = "None" -> [ok |-> TRUE, val |-> NoneLeaf]
      [] t = "True" -> [ok |-> TRUE, val |-> TrueLeaf]
      [] t \in QuotedToks -> [ok |-> TRUE, val |-> Unquoted(t)]
      [] OTHER -> [ok |-> FALSE, val |-> NoneLeaf]

\* One leaf token read by exec() ("python") or by json.loads ("json").
ReadLeaf(t, lang) == IF lang = "python" THEN PyEvalLeaf(t) ELSE JsonLoadsLeaf(t)

\* A requirements text read back leaf by leaf: [ok, val], val an Optional
\* requirements record.
ReadReqText(t, lang) ==
    IF ~IsReqText(t) THEN [ok |-> FALSE, val |-> None]
    ELSE LET f == ReadLeaf(t[2], lang)
             ls == ReqTextLeaves(t)
             vs == [i \in 1..Len(ls) |-> ReadLeaf(ls[i], lang)]
         IN  IF f.ok /\ \A i \in 1..Len(ls) : vs[i].ok
             THEN [ok |-> TRUE,
                   val |-> Some([format |-> f.val,
                                 contents |-> [i \in 1..Len(ls) |-> vs[i].val]])]
             ELSE [ok |-> FALSE, val |-> None]

\* exec() of `notebook_requirements = <text>`.
PyEvalReqExpr(t) ==
    IF t = <<"None">> THEN [ok |-> TRUE, val |-> None]
    ELSE ReadReqText(t, "python")

\* json.loads of a requirements value.
JsonLoadsReq(t) ==
    IF t = <<"null">> THEN [ok |-> TRUE, val |-> None]
    ELSE ReadReqText(t, "json")

\* json.dumps of a str: quotes and backslashes are escaped.
RECURSIVE JsonEscape(_)
JsonEscape(s) ==
    IF s = <<>> THEN <<>>
    ELSE (IF Head(s) \in {DQ, BS} THEN <<BS, Head(s)>> ELSE <<Head(s)>>)
             \o JsonEscape(Tail(s))

JsonDumpsOptStr(o) == IF o = None THEN <<"null">> ELSE <<DQ>> \o JsonEscape(o[1]) \o <<DQ>>

JsonDumpsOptReq(o) == IF o = None THEN <<"null">> ELSE JsonDumpsReq(o[1])

RECURSIVE JsonUnescape(_, _, _)
JsonUnescape(t, i, acc) ==
    IF i > Len(t) THEN [ok |-> FALSE, val |-> None]
    ELSE IF t[i] = DQ THEN [ok |-> i = Len(t), val |-> Some(acc)]
    ELSE IF t[i] = BS THEN
        IF i < Len(t) /\ t[i + 1] \in {DQ, BS}
            THEN JsonUnescape(t, i + 2, Append(acc, t[i + 1]))
            ELSE [ok |-> FALSE, val |-> None]
    ELSE JsonUnescape(t, i + 1, Append(acc, t[i]))

\* json.loads of a value expected to be null or a string: [ok, val]; ok is
\* FALSE for any other JSON value (a number, an object).
JsonLoadsOptStr(t) ==
    IF t = <<"null">> THEN [ok |-> TRUE, val |-> None]
    ELSE IF t = <<>> \/ t[1] # DQ THEN [ok |-> FALSE, val |-> None]
    ELSE JsonUnescape(t, 2, <<>>)

----------------------------------------------------------------------------
(* The notebook: cells in order, and the document metadata key              *)
(* garden_metadata (None when the key is absent).                           *)
(*                                                                          *)
(* A cell: tag, the marker tag it carries ("" for a user's own cell); id,   *)
(* which user cell it is (0 for a marker cell); kind, the shape of its      *)
(* source; img, name and req, the texts the source and the cell metadata    *)
(* hold.                                                                    *)

UserCell(k) ==
    [tag |-> "", id |-> k, kind |-> "code", img |-> <<>>, name |-> <<>>, req |-> <<>>]

MarkerCell(tag, kind, img, name, req) ==
    [tag |-> tag, id |-> 0, kind |-> kind, img |-> img, name |-> name, req |-> req]

HasTag(n, tag) == \E i \in 1..Len(n.cells) : n.cells[i].tag = tag

TagCount(n, tag) == Cardinality({i \in 1..Len(n.cells) : n.cells[i].tag = tag})

\* `for cell in ntbk.cells: if tag in cell_tags: ...; break`
FirstTagged(n, tag) ==
    n.cells[CHOOSE i \in 1..Len(n.cells) :
                /\ n.cells[i].tag = tag
                /\ \A j \in 1..(i - 1) : n.cells[j].tag # tag]

\* What an operation returns: how it ended ("ok", "exit1" for typer.Exit(1),
\* "crash" for an exception nobody catches), the message it printed, and the
\* record it returned; a field the store's record does not have is None.
Result(status, msg, doi, name, uri, req) ==
    [status |-> status, msg |-> msg, doi |-> doi, name |-> name, uri |-> uri, req |-> req]

Returned(doi, name, uri, req) == Result("ok", "", doi, name, uri, req)
Exit1(msg) == Result("exit1", msg, None, None, None, None)
Crash(msg) == Result("crash", msg, None, None, None, None)

\* The record every reader returns when it finds nothing: all fields null.
AbsentDefault(msg) == Result("ok", msg, None, None, None, None)

----------------------------------------------------------------------------
(* The cli store: garden_ai/app/notebook.py                                 *)

CliTag == "garden_metadata"

\* The cell _add_notebook_metadata_cell writes:
\*   notebook_image_uri = None / notebook_requirements = None
CliNewCell == MarkerCell(CliTag, "meta", <<"None">>, <<>>, <<"None">>)

\* exec(cell source, namespace): ok is FALSE when it raises; defined tells
\* whether the namespace then has the two names.  A "meta" source is the
\* template's comment lines and the two assignments; "comments" is a source
\* that runs and assigns nothing; "blank" is the empty source; "junk" is
\* text that is not Python.
CliExec(c) ==
    CASE c.kind = "meta" ->
            LET u == PyEvalStrExpr(c.img)
                r == PyEvalReqExpr(c.req)
            IN  [ok |-> u.ok /\ r.ok, defined |-> TRUE, uri |-> u.val, req |-> r.val]
      [] c.kind \in {"comments", "blank"} ->
            [ok |-> TRUE, defined |-> FALSE, uri |-> None, req |-> None]
      [] OTHER ->
            [ok |-> FALSE, defined |-> FALSE, uri |-> None, req |-> None]

\* A faulty _add_notebook_metadata_cell: the new cell is appended.
CliAddAtEnd(n) ==
    IF HasTag(n, CliTag) THEN n
    ELSE [n EXCEPT !.cells = Append(n.cells, CliNewCell)]

\* _add_notebook_metadata_cell
CliAdd(n) ==
    IF HasTag(n, CliTag) THEN n
    ELSE [n EXCEPT !.cells = <<CliNewCell>> \o n.cells]

\* One tagged cell rewritten by _set_notebook_metadata.
CliRewrite(c, u, q) ==
    LET old == CliExec(c)
    IN  [c EXCEPT !.kind = "meta",
                  !.img = FormatUriLine(u),
                  !.req = IF q # None THEN JsonDumpsReq(q[1])
                          ELSE IF old.req # None THEN JsonDumpsReq(old.req[1])
                          ELSE <<"None">>]

\* Whether rewriting cell c raises: exec of its source raises, or no new
\* requirements are given and the source never assigned
\* notebook_requirements (AttributeError).
CliRewriteRaises(c, q) ==
    LET old == CliExec(c)
    IN  ~old.ok \/ (q = None /\ ~old.defined)

\* _set_notebook_metadata: [nb, out].  Every tagged cell is rewritten; the
\* file is written once, after the loop, so an exception leaves it alone.
CliSet(n, u, q) ==
    IF \E i \in 1..Len(n.cells) :
           n.cells[i].tag = CliTag /\ CliRewriteRaises(n.cells[i], q)
    THEN [nb |-> n, out |-> Crash("exec")]
    ELSE [nb |-> [n EXCEPT !.cells =
                     [i \in 1..Len(n.cells) |->
                         IF n.cells[i].tag = CliTag
                         THEN CliRewrite(n.cells[i], u, q)
                         ELSE n.cells[i]]],
          out |-> Returned(None, None, None, None)]

\* _get_notebook_metadata
CliGet(n) ==
    IF ~HasTag(n, CliTag) \/ FirstTagged(n, CliTag).kind = "blank"
    THEN AbsentDefault("Unable to find garden metadata cell.")
    ELSE LET e == CliExec(FirstTagged(n, CliTag))
         IN  IF ~e.ok THEN Crash("exec")
             ELSE IF e.defined THEN Returned(None, None, e.uri, e.req)
             ELSE Returned(None, None, None, None)

----------------------------------------------------------------------------
(* Base-image resolution: garden_ai/app/notebook.py                         *)

\* GardenConstants.PREMADE_IMAGES: the catalog of premade images, short name
\* to image URI.  A name and a catalog URI are strings of one symbol each.
PremadeNames == {<<"3.9-base">>, <<"3.10-base">>}
PremadeImages(name) == <<"gardenai/base:", name[1]>>

\* A faulty _get_base_image_uri: no check that name and custom URI exclude
\* each other, so the custom URI silently wins.
GetBaseImageUriCustomWins(name, custom, path) ==
    LET meta == IF path # None THEN CliGet(path[1]) ELSE AbsentDefault("")
    IN  IF meta.status # "ok" THEN meta
        ELSE IF Truthy(custom) THEN Returned(None, None, custom, None)
        ELSE IF Truthy(name) /\ name[1] \in PremadeNames
            THEN Returned(None, None, Some(PremadeImages(name[1])), None)
        ELSE IF Truthy(name) THEN Exit1("unknown")
        ELSE IF Truthy(meta.uri) THEN Returned(None, None, meta.uri, None)
        ELSE Exit1("noimage")

\* _get_base_image_uri(base_image_name, custom_image_uri, notebook_path);
\* path is None or the notebook at notebook_path.
GetBaseImageUri(name, custom, path) ==
    IF Truthy(name) /\ Truthy(custom) THEN Exit1("conflict")
    ELSE LET meta == IF path # None THEN CliGet(path[1]) ELSE AbsentDefault("")
             last_used_image_uri == meta.uri
         IN  IF meta.status # "ok" THEN meta
             ELSE IF ~(Truthy(name) \/ Truthy(custom) \/ Truthy(last_used_image_uri))
                 THEN Exit1("noimage")
             ELSE IF Truthy(custom) THEN Returned(None, None, custom, None)
             ELSE IF Truthy(name) THEN
                 IF name[1] \in PremadeNames
                 THEN Returned(None, None, Some(PremadeImages(name[1])), None)
                 ELSE Exit1("unknown")
             ELSE Returned(None, None, last_used_image_uri, None)

\* debug: `_get_base_image_uri(None, None, path) or "gardenai/base:python-3.10-jupyter"`
DebugFallbackImage == <<"gardenai/base:python-3.10-jupyter">>

DebugBaseImageUri(path) ==
    LET r == GetBaseImageUri(None, None, path)
    IN  IF r.status = "ok" /\ ~Truthy(r.uri)
        THEN Returned(None, None, Some(DebugFallbackImage), None)
        ELSE r

----------------------------------------------------------------------------
(* The doc store: garden_ai/notebook_metadata.py                            *)
(* The document metadata key garden_metadata holds a JSON object with the   *)
(* fields of NotebookMetadata; here doi, name, uri and req are the JSON     *)
(* texts of global_notebook_doi, notebook_image_name, notebook_image_uri    *)
(* and notebook_requirements, and <<>> stands for a key that is missing.    *)

DocTag == "garden_display_metadata_cell"

DocWidgetCell == MarkerCell(DocTag, "widget", <<>>, <<>>, <<>>)

GmFields == {"doi", "name", "uri", "req"}

EmptyGm == [f \in GmFields |-> <<>>]

\* add_notebook_metadata
DocAdd(n) ==
    LET gm == IF n.gm = None THEN EmptyGm ELSE n.gm[1]
    IN  [cells |-> IF HasTag(n, DocTag) THEN n.cells ELSE <<DocWidgetCell>> \o n.cells,
         gm |-> Some([f \in GmFields |-> IF gm[f] = <<>> THEN <<"null">> ELSE gm[f]])]

\* A faulty model_dump: image name and image URI change places.
ModelDumpSwapped(doi, name, uri, req) ==
    [doi |-> JsonDumpsOptStr(doi), name |-> JsonDumpsOptStr(uri),
     uri |-> JsonDumpsOptStr(name), req |-> JsonDumpsOptReq(req)]

\* NotebookMetadata(...).model_dump(), as nbformat.write stores it.
ModelDump(doi, name, uri, req) ==
    [doi |-> JsonDumpsOptStr(doi), name |-> JsonDumpsOptStr(name),
     uri |-> JsonDumpsOptStr(uri), req |-> JsonDumpsOptReq(req)]

\* set_notebook_metadata
DocSet(n, doi, name, uri, req) == [n EXCEPT !.gm = Some(ModelDump(doi, name, uri, req))]

\* RequirementsData's validation: file_format is a str.
ValidRequirementsData(r) ==
    r.ok /\ (r.val # None => r.val[1].format \notin {NoneLeaf, TrueLeaf})

\* NotebookMetadata.parse_obj: every field is required; the three strings
\* are a str or None.  ok is FALSE on a ValidationError.
ParseObj(gm) ==
    LET d == JsonLoadsOptStr(gm.doi)
        m == JsonLoadsOptStr(gm.name)
        u == JsonLoadsOptStr(gm.uri)
        r == JsonLoadsReq(gm.req)
    IN  [ok |-> d.ok /\ m.ok /\ u.ok /\ ValidRequirementsData(r),
         doi |-> d.val, name |-> m.val, uri |-> u.val, req |-> r.val]

\* A faulty get_notebook_metadata: the key is read without looking whether
\* it is there (KeyError).
DocGetNoKeyCheck(n) ==
    IF n.gm = None THEN Crash("KeyError")
    ELSE LET r == ParseObj(n.gm[1])
         IN  IF r.ok THEN Returned(r.doi, r.name, r.uri, r.req)
             ELSE AbsentDefault("Unable to parse garden metadata cell.")

\* get_notebook_metadata
DocGet(n) ==
    IF n.gm = None THEN AbsentDefault("Unable to find garden metadata.")
    ELSE LET r == ParseObj(n.gm[1])
         IN  IF r.ok THEN Returned(r.doi, r.name, r.uri, r.req)
             ELSE AbsentDefault("Unable to parse garden metadata cell.")

----------------------------------------------------------------------------
(* The legacy store: garden_ai/metadata.py                                  *)
(* The marker cell's source is the template with NOTEBOOK_METADATA = <JSON> *)
(* inside a docstring; name and req are the JSON texts of                   *)
(* NOTEBOOK_BASE_IMAGE_NAME and NOTEBOOK_REQUIREMENTS, img the JSON text of *)
(* NOTEBOOK_BASE_IMAGE_URI in the cell's own metadata.  A "nomatch" source  *)
(* is one the regular expression does not match; a "badjson" source is one  *)
(* it matches with a body json.loads rejects.                               *)

LegacyTag == "garden_metadata_cell"

LegacyNewCell == MarkerCell(LegacyTag, "meta", <<"null">>, <<"null">>, <<"null">>)

\* add_notebook_metadata_cell
LegacyAdd(n) ==
    IF HasTag(n, LegacyTag) THEN n
    ELSE [n EXCEPT !.cells = <<LegacyNewCell>> \o n.cells]

\* set_notebook_metadata
LegacySet(n, name, uri, req) ==
    [n EXCEPT !.cells =
        [i \in 1..Len(n.cells) |->
            IF n.cells[i].tag = LegacyTag
            THEN MarkerCell(LegacyTag, "meta", JsonDumpsOptStr(uri),
                            JsonDumpsOptStr(name), JsonDumpsOptReq(req))
            ELSE n.cells[i]]]

\* get_notebook_metadata
LegacyGet(n) ==
    IF ~HasTag(n, LegacyTag) \/ FirstTagged(n, LegacyTag).kind = "blank"
    THEN AbsentDefault("Unable to find garden metadata cell.")
    ELSE LET c == FirstTagged(n, LegacyTag)
             m == JsonLoadsOptStr(c.name)
             r == JsonLoadsReq(c.req)
             u == JsonLoadsOptStr(c.img)
         IN  IF c.kind = "nomatch" THEN AbsentDefault("")
             ELSE IF c.kind = "badjson" \/ ~m.ok \/ ~r.ok THEN Crash("json.loads")
             ELSE Returned(None, m.val, u.val, r.val)

----------------------------------------------------------------------------
(* Initial notebooks: NumUserCells cells of the user's, in order, and at    *)
(* most one marker cell, before or after them.  A marker cell is as the     *)
(* store's add operation writes it, or as a user's edit left it.            *)

Impls == {"cli", "doc", "legacy"}

MarkerTag(i) ==
    CASE i = "cli" -> CliTag
      [] i = "doc" -> DocTag
      [] i = "legacy" -> LegacyTag

InitMarkerCells(i) ==
    CASE i = "cli" ->
            {CliNewCell} \cup
            {MarkerCell(CliTag, k, <<>>, <<>>, <<>>) : k \in {"junk", "comments", "blank"}}
      [] i = "doc" -> {DocWidgetCell}
      [] i = "legacy" ->
            {LegacyNewCell} \cup
            {MarkerCell(LegacyTag, k, <<"null">>, <<"null">>, <<"null">>) :
                k \in {"nomatch", "badjson", "blank"}}

\* Document metadata a notebook may start with: none; an object a user's
\* edit left without some keys; an object holding a value of the wrong type.
InitGms(i) ==
    IF i # "doc" THEN {None}
    ELSE {None,
          Some([EmptyGm EXCEPT !.uri = JsonDumpsOptStr(Some(<<"z">>))]),
          Some([ModelDump(None, None, None, None) EXCEPT !.uri = <<"7">>])}

UserCells(k) == [j \in 1..k |-> UserCell(j)]

InsertAt(cells, p, c) == SubSeq(cells, 1, p) \o <<c>> \o SubSeq(cells, p + 1, Len(cells))

Layouts(markers) ==
    {UserCells(NumUserCells)}
    \cup {InsertAt(UserCells(NumUserCells), p, c) : p \in {0, NumUserCells}, c \in markers}

InitNotebooks(i) ==
    {[cells |-> cs, gm |-> g] : cs \in Layouts(InitMarkerCells(i)), g \in InitGms(i)}

----------------------------------------------------------------------------
(* The last operation: what was called, with which arguments, on which      *)
(* notebook (pre, kept for add), and what it returned.  Of a write that     *)
(* raised, only that it raised is kept.                                     *)

NoNotebook == [cells |-> <<>>, gm |-> None]

Op(op, cmd, exists, doi, name, custom, uri, req, pre, out) ==
    [op |-> op, cmd |-> cmd, exists |-> exists, doi |-> doi, name |-> name,
     custom |-> custom, uri |-> uri, req |-> req, pre |-> pre, out |-> out]

StoreOp(op, doi, name, uri, req, pre, out) ==
    Op(op, "", TRUE, doi, name, None, uri, req, pre, out)

ResolveOp(cmd, exists, name, custom, out) ==
    Op("resolve", cmd, exists, None, name, custom, None, None, NoNotebook, out)

\* No command is under way.
NoRun == [cmd |-> "", pc |-> "idle"]

\* What a caller may pass.
NameArgs == {None, Some(<<>>), Some(<<"3.9-base">>), Some(<<"bogus">>)}
CustomArgs == {None, Some(<<>>), Some(<<"z">>)}
OptUris == {None} \cup {Some(u) : u \in Uris}
DoiArgs == {None, Some(<<"10.23677/testdoi">>)}
ImageNameArgs == {None, Some(<<"3.9-base">>)}

Init ==
    /\ impl \in Impls
    /\ nb \in InitNotebooks(impl)
    /\ last = StoreOp("init", None, None, None, None, NoNotebook, Returned(None, None, None, None))
    /\ run = NoRun

----------------------------------------------------------------------------
(* Operations of the cli store *)

CliAddCell ==
    /\ impl = "cli"
    /\ nb' = CliAdd(nb)
    /\ last' = StoreOp("add", None, None, None, None, nb, Returned(None, None, None, None))
    /\ UNCHANGED <<impl, run>>

CliSetMetadata ==
    /\ impl = "cli"
    /\ \E u \in Uris, q \in OptReqs :
          LET r == CliSet(nb, u, q)
          IN  /\ nb' = r.nb
              /\ last' = IF r.out.status = "ok"
                         THEN StoreOp("set", None, None, Some(u), q, NoNotebook, r.out)
                         ELSE StoreOp("set", None, None, None, None, NoNotebook, r.out)
    /\ UNCHANGED <<impl, run>>

CliGetMetadata ==
    /\ impl = "cli"
    /\ last' = StoreOp("get", None, None, None, None, NoNotebook, CliGet(nb))
    /\ UNCHANGED <<impl, nb, run>>

\* start, up to and including base-image resolution.  With a path to an
\* existing notebook the marker cell is added first and the notebook is
\* consulted; otherwise a notebook is still to be created and none is.
StartResolve ==
    /\ impl = "cli"
    /\ \E name \in NameArgs, custom \in CustomArgs, exists \in BOOLEAN :
          LET n1 == IF exists THEN CliAdd(nb) ELSE nb
              out == GetBaseImageUri(name, custom, IF exists THEN Some(n1) ELSE None)
          IN  /\ nb' = n1
              /\ last' = ResolveOp("start", exists, name, custom, out)
    /\ UNCHANGED <<impl, run>>

\* publish, up to and including base-image resolution, which reads a
\* temporary copy of the notebook.
PublishResolve ==
    /\ impl = "cli"
    /\ \E name \in NameArgs, custom \in CustomArgs :
          last' = ResolveOp("publish", TRUE, name, custom,
                            GetBaseImageUri(name, custom, Some(nb)))
    /\ UNCHANGED <<impl, nb, run>>

\* debug, up to and including base-image resolution: it takes no image
\* options, and resolves inside the Docker client session.
DebugResolve ==
    /\ impl = "cli"
    /\ last' = ResolveOp("debug", TRUE, None, None, DebugBaseImageUri(Some(nb)))
    /\ UNCHANGED <<impl, nb, run>>

\* debug when the Docker client cannot be had: DockerClientSession exits
\* before anything is resolved.
DebugNoDocker ==
    /\ impl = "cli"
    /\ last' = Op("nodocker", "debug", TRUE, None, None, None, None, None, NoNotebook,
                  Exit1("docker"))
    /\ UNCHANGED <<impl, nb, run>>

----------------------------------------------------------------------------
(* Operations of the doc store *)

DocAddMetadata ==
    /\ impl = "doc"
    /\ nb' = DocAdd(nb)
    /\ last' = StoreOp("add", None, None, None, None, nb, Returned(None, None, None, None))
    /\ UNCHANGED <<impl, run>>

DocSetMetadata ==
    /\ impl = "doc"
    /\ \E doi \in DoiArgs, name \in ImageNameArgs, uri \in OptUris, req \in OptReqs :
          /\ nb' = DocSet(nb, doi, name, uri, req)
          /\ last' = StoreOp("set", doi, name, uri, req, NoNotebook,
                             Returned(None, None, None, None))
    /\ UNCHANGED <<impl, run>>

DocGetMetadata ==
    /\ impl = "doc"
    /\ last' = StoreOp("get", None, None, None, None, NoNotebook, DocGet(nb))
    /\ UNCHANGED <<impl, nb, run>>

----------------------------------------------------------------------------
(* Operations of the legacy store *)

LegacyAddCell ==
    /\ impl = "legacy"
    /\ nb' = LegacyAdd(nb)
    /\ last' = StoreOp("add", None, None, None, None, nb, Returned(None, None, None, None))
    /\ UNCHANGED <<impl, run>>

LegacySetMetadata ==
    /\ impl = "legacy"
    /\ \E name \in ImageNameArgs, uri \in Uris, req \in OptReqs :
          /\ nb' = LegacySet(nb, name, Some(uri), req)
          /\ last' = StoreOp("set", None, name, Some(uri), req, NoNotebook,
                             Returned(None, None, None, None))
    /\ UNCHANGED <<impl, run>>

LegacyGetMetadata ==
    /\ impl = "legacy"
    /\ last' = StoreOp("get", None, None, None, None, NoNotebook, LegacyGet(nb))
    /\ UNCHANGED <<impl, nb, run>>

----------------------------------------------------------------------------

Next ==
    \/ CliAddCell
    \/ CliSetMetadata
    \/ CliGetMetadata
    \/ DocAddMetadata
    \/ DocSetMetadata
    \/ DocGetMetadata
    \/ LegacyAddCell
    \/ LegacySetMetadata
    \/ LegacyGetMetadata

Spec == Init /\ [][Next]_vars

----------------------------------------------------------------------------
(* Base-image resolution by the three commands, on notebooks of the cli     *)
(* store: as above, or with a marker cell as _set_notebook_metadata writes  *)
(* it for some URI.                                                         *)

WrittenMarkerCells == {CliRewrite(CliNewCell, u, None) : u \in Uris}

InitResolve ==
    /\ impl = "cli"
    /\ nb \in {[cells |-> cs, gm |-> None] :
                 cs \in Layouts(InitMarkerCells("cli") \cup WrittenMarkerCells)}
    /\ last = StoreOp("init", None, None, None, None, NoNotebook, Returned(None, None, None, None))
    /\ run = NoRun

NextResolve ==
    \/ StartResolve
    \/ PublishResolve
    \/ DebugResolve
    \/ DebugNoDocker

SpecResolve == InitResolve /\ [][NextResolve]_vars


----------------------------------------------------------------------------
(* Properties of base-image resolution, under SpecResolve                   *)

Resolved == last.op = "resolve"

\* The URI the notebook consulted records, None when there is none to read.
RecordedUri ==
    IF ~last.exists THEN None
    ELSE LET g == CliGet(nb) IN IF g.status = "ok" THEN g.uri ELSE None

\* C1: whenever both a base image name and a custom image URI are given,
\* resolution ends with the conflict error (exit code 1) and no image,
\* whatever the notebook records.
C1_ConflictAlwaysFails ==
    (Resolved /\ Truthy(last.name) /\ Truthy(last.custom))
        => last.out = Exit1("conflict")

\* Both given, to a notebook that records a URI of its own.
C1_Witness ==
    /\ Resolved /\ Truthy(last.name) /\ Truthy(last.custom)
    /\ last.exists /\ Truthy(RecordedUri)
    /\ last.out.status = "exit1"

\* C2: when name and custom URI are not both given and the name, if given,
\* is in the catalog, the result is the custom URI if given, else the
\* catalog's image for the name if given, else the recorded URI if any.
C2_FirstMatchWins ==
    (/\ Resolved
     /\ ~(Truthy(last.name) /\ Truthy(last.custom))
     /\ Truthy(last.name) => last.name[1] \in PremadeNames
     /\ Truthy(last.name) \/ Truthy(last.custom) \/ Truthy(RecordedUri))
        => last.out =
              IF Truthy(last.custom) THEN Returned(None, None, last.custom, None)
              ELSE IF Truthy(last.name)
                  THEN Returned(None, None, Some(PremadeImages(last.name[1])), None)
              ELSE Returned(None, None, RecordedUri, None)

\* C3: a name that is not in the catalog, with no custom URI, always ends
\* with the unknown-base-image error (exit code 1).
C3_UnknownNameAlwaysFails ==
    (/\ Resolved
     /\ Truthy(last.name) /\ last.name[1] \notin PremadeNames
     /\ ~Truthy(last.custom))
        => last.out = Exit1("unknown")

\* C4: with no name, no custom URI and no recorded URI, resolution ends with
\* the no-base-image error (exit code 1), for start, publish and debug.
C4_NothingGivenFails ==
    (/\ Resolved
     /\ ~Truthy(last.name) /\ ~Truthy(last.custom) /\ ~Truthy(RecordedUri))
        => last.out = Exit1("noimage")

\* Whether the metadata cell of the notebook consulted, if any, executes.
MetadataExecutes == last.exists => CliGet(nb).status = "ok"

\* What C2, C3 and C4 say holds on every notebook whose metadata cell
\* executes, and debug never resolves to its fallback image.
PrecedenceWhenMetadataExecutes ==
    MetadataExecutes =>
        /\ C2_FirstMatchWins
        /\ C3_UnknownNameAlwaysFails
        /\ C4_NothingGivenFails
        /\ Resolved => last.out.uri # Some(DebugFallbackImage)

----------------------------------------------------------------------------
(* Properties of the three stores, under Spec                               *)

Get(i, n) ==
    CASE i = "cli" -> CliGet(n)
      [] i = "doc" -> DocGet(n)
      [] i = "legacy" -> LegacyGet(n)

AllNull(out) ==
    out.status = "ok" /\ out.doi = None /\ out.name = None /\ out.uri = None /\ out.req = None

\* C5: in the doc store, get_notebook_metadata right after
\* set_notebook_metadata returns the record that was set, field for field.
C5_DocRoundTrip ==
    [][(impl = "doc" /\ last.op = "set" /\ last'.op = "get")
          => last'.out = Returned(last.doi, last.name, last.uri, last.req)]_vars

\* A record with a quote in its URI and with requirements, set and read back.
C5_Witness ==
    /\ impl = "doc" /\ last.op = "get"
    /\ last.out.uri = Some(<<DQ>>) /\ last.out.req # None /\ last.out.doi # None

\* C6: in the cli store, on a notebook with the garden_metadata cell,
\* _get_notebook_metadata right after _set_notebook_metadata(u, q) with q
\* not null returns u and q exactly.
C6_CliRoundTrip ==
    [][(/\ impl = "cli" /\ last.op = "set" /\ last.out.status = "ok"
        /\ HasTag(nb, CliTag) /\ last.req # None
        /\ last'.op = "get")
          => (/\ last'.out.status = "ok"
              /\ last'.out.uri = last.uri
              /\ last'.out.req = last.req)]_vars

\* C7: after add or set, the notebook holds exactly one cell with the
\* store's marker tag.
C7_ExactlyOneMarker ==
    last.op \in {"add", "set"} => TagCount(nb, MarkerTag(impl)) = 1

\* What holds of C7: never two marker cells, and one after add.
NeverTwoMarkers ==
    /\ TagCount(nb, MarkerTag(impl)) <= 1
    /\ last.op = "add" => TagCount(nb, MarkerTag(impl)) = 1

AddedMissingMarker == last.op = "add" /\ ~HasTag(last.pre, MarkerTag(impl))

InsertedFirst ==
    /\ nb.cells # <<>>
    /\ Head(nb.cells).tag = MarkerTag(impl)
    /\ Tail(nb.cells) = last.pre.cells

\* C8 as stated: when the marker cell is missing, add inserts it as the
\* first cell, the cells that were there follow in their order, and every
\* metadata field is null.
C8_AddInsertsFirstAllNull ==
    AddedMissingMarker => (InsertedFirst /\ AllNull(Get(impl, nb)))

\* C8, amended: when the marker cell is missing, add inserts it as the first
\* cell and the cells that were there follow in their order; every metadata
\* field not recorded before is null, and the doc store keeps the fields
\* its document metadata recorded before.
C8_AddInsertsFirstKeepsRecorded ==
    AddedMissingMarker =>
        /\ InsertedFirst
        /\ impl # "doc" => Get(impl, nb) = Returned(None, None, None, None)
        /\ impl = "doc" =>
              /\ nb.gm # None
              /\ \A f \in GmFields :
                    nb.gm[1][f] = IF last.pre.gm # None /\ last.pre.gm[1][f] # <<>>
                                  THEN last.pre.gm[1][f]
                                  ELSE <<"null">>

\* The widget cell added to a notebook whose document metadata records a URI.
C8_Witness ==
    /\ impl = "doc" /\ AddedMissingMarker
    /\ Len(last.pre.cells) = NumUserCells
    /\ last.pre.gm # None
    /\ DocGet(nb).uri # None

NoLocation ==
    IF impl = "doc" THEN nb.gm = None ELSE ~HasTag(nb, MarkerTag(impl))

\* C9: reading from a notebook with no metadata location returns a record
\* with every field null; it does not fail, and says that nothing was found.
C9_GetWithoutLocation ==
    (last.op = "get" /\ NoLocation) => (AllNull(last.out) /\ last.out.msg # "")

\* The legacy store read a notebook that holds only the user's cells.
C9_Witness ==
    /\ impl = "legacy" /\ last.op = "get" /\ NoLocation
    /\ Len(nb.cells) = NumUserCells
    /\ last.out.status = "ok"

\* The metadata location is there and does not hold what a writer puts there.
Damaged ==
    CASE impl = "cli" ->
            HasTag(nb, CliTag) /\ ~CliExec(FirstTagged(nb, CliTag)).ok
      [] impl = "doc" -> nb.gm # None /\ ~ParseObj(nb.gm[1]).ok
      [] impl = "legacy" ->
            HasTag(nb, LegacyTag) /\ FirstTagged(nb, LegacyTag).kind \in {"nomatch", "badjson"}

\* C10: reading from a notebook whose stored metadata is damaged never
\* crashes, and returns the record with every field null.
C10_GetOfDamagedReturnsDefault ==
    (last.op = "get" /\ Damaged) => AllNull(last.out)

\* What holds of C10: the doc store's reader returns the default.
DocGetOfDamagedReturnsDefault ==
    (impl = "doc" /\ last.op = "get" /\ Damaged) => AllNull(last.out)

----------------------------------------------------------------------------
(* Requirements given on the command line, and the temporary requirements   *)
(* file a build is given: garden_ai/app/notebook.py                         *)

\* A file --requirements may name: whether it exists, its suffix, and the
\* requirements its text holds (what the readers further down parse it to).
ReqFile(exists, suffix, contents) ==
    [exists |-> exists, suffix |-> suffix, contents |-> contents]

ReqFileArgs ==
    {None,
     Some(ReqFile(TRUE, ".txt", <<"pandas", "pandas">>)),
     Some(ReqFile(TRUE, ".yml", <<"pandas">>)),
     Some(ReqFile(TRUE, ".cfg", <<"pandas">>)),
     Some(ReqFile(FALSE, ".txt", <<>>))}

\* _validate_requirements_path
ValidateRequirementsPath(f) ==
    IF ~f.exists THEN Exit1("Could not find file")
    ELSE IF f.suffix \notin {".txt", ".yml", ".yaml"}
        THEN Exit1("Requirements file in unexpected format.")
    ELSE Returned(None, None, None, None)

\* _read_requirements_data(requirements_path, notebook_path); path is None
\* when no file is at notebook_path, else the notebook there.
CliReadRequirementsData(file, path) ==
    IF path = None THEN Returned(None, None, None, None)
    ELSE IF file # None /\ file[1].suffix \in {".txt"}
        THEN Returned(None, None, None,
                      Some([format |-> "pip", contents |-> file[1].contents]))
    ELSE IF file # None /\ file[1].suffix \in {".yml", ".yaml"}
        THEN Returned(None, None, None,
                      Some([format |-> "conda", contents |-> file[1].contents]))
    ELSE LET meta == CliGet(path[1])
         IN  IF meta.status # "ok" THEN meta
             ELSE Returned(None, None, None, meta.req)

\* What _save_requirements_data leaves behind: how it ended, the path it
\* returned, the entries it wrote and the message it printed.
Saved(status, path, contents, msg) ==
    [status |-> status, path |-> path, contents |-> contents, msg |-> msg]

NothingSaved == Saved("ok", None, <<>>, "")

\* _save_requirements_data.  In the branch of an unknown format the name
\* req_file was never bound: req_file.close() raises UnboundLocalError.
CliSaveRequirementsData(q) ==
    IF q.contents # <<>> /\ q.format \notin {NoneLeaf, ""} THEN
        IF q.format = "pip"
            THEN Saved("ok", Some("requirements.txt"), q.contents, "")
        ELSE IF q.format = "conda"
            THEN Saved("ok", Some("requirements.yml"), q.contents, "")
        ELSE Saved("crash", None, <<>>, "Invalid format for requirements data")
    ELSE Saved("ok", None, <<>>, "Invalid requirements data, ignoring requirements.")

----------------------------------------------------------------------------
(* The commands start, publish and debug: garden_ai/app/notebook.py.        *)
(*                                                                          *)
(* run tells where the command under way stands (pc), what it resolved     *)
(* (uri, reqs), whether the user confirmed, the notebook as                 *)
(* _set_notebook_metadata left it (written), the temporary copy publish     *)
(* and debug work on (tmp), the temporary requirements file (saved), the    *)
(* calls it has made so far to the functions that build, push and run       *)
(* images (stages, each with what it was called on), the image it holds     *)
(* (image), the stage that failed (failed, "" when none did), and how it    *)
(* ended (status: "" while it runs, then "ok", "exit1", "abort" or          *)
(* "crash").  Two facts outlive a command: whether the notebook file        *)
(* exists, and built, the base image of the last dependency build that      *)
(* succeeded for it.                                                        *)

Run(cmd, pc, exists, file, uri, confirmed, reqs, written, tmp, built) ==
    [cmd |-> cmd, pc |-> pc, exists |-> exists, file |-> file, uri |-> uri,
     confirmed |-> confirmed, reqs |-> reqs, written |-> written, tmp |-> tmp,
     saved |-> NothingSaved, stages |-> <<>>, image |-> None, failed |-> "",
     status |-> "", msg |-> "", built |-> built]

Idle(exists) == Run("", "idle", exists, None, None, FALSE, None, None, None, None)

\* What the functions of garden_ai.containers may do when called: return,
\* or raise one of the exceptions notebook.py imports from there;
\* build_notebook_session_image may also return no image.
ClientOutcomes == {"ok", "DockerStartFailure"}
DependencyBuildOutcomes == {"ok", "DockerPreBuildFailure", "DockerStartFailure"}
BakeOutcomes == {"ok", "none", "DockerBuildFailure", "DockerStartFailure"}
PushOutcomes == {"ok", "PushFailure"}
UploadOutcomes == {"ok", "UploadFailure"}
ContainerOutcomes == {"ok", "DockerStartFailure"}

\* The notebook templates start copies for a new notebook, and the one
\* debug copies: the metadata cell, freshly created, then the template's
\* own cells.
TemplateNotebook == [cells |-> <<CliNewCell>> \o UserCells(NumUserCells), gm |-> None]

\* The images the builds return: the dependency layer on a base image, and
\* the notebook baked on an image.
DependencyImage(base, requirements) ==
    [layer |-> "deps", on |-> base, requirements |-> requirements]

SessionImage(base) == [layer |-> "bake", on |-> base]

BuildErrors == {"DockerPreBuildFailure", "DockerBuildFailure"}

\* DockerClientSession.__enter__ and __exit__ on an exception raised inside
\* the session: a DockerStartFailure and a docker.errors.BuildError (or a
\* subclass) are reported and turned into typer.Exit(1); anything else
\* propagates.
SessionExit(exc) ==
    IF exc = "DockerStartFailure" THEN Exit1("Garden can't access Docker on your computer.")
    ELSE IF exc \in BuildErrors THEN
        IF exc = "DockerPreBuildFailure"
        THEN Exit1("Garden could not set up your base Docker image.")
        ELSE Exit1("Garden could not build a Docker image from your notebook.")
    ELSE Crash(exc)

\* The command under way goes on to pc.
Goes(pc) == [run EXCEPT !.pc = pc]

\* The command under way ends.
Ended(status, msg) == [run EXCEPT !.pc = "idle", !.status = status, !.msg = msg]

\* The command under way calls a stage on arg.
Called(r, stage, arg) == [r EXCEPT !.stages = Append(@, [stage |-> stage, arg |-> arg])]

\* A faulty session: the failure of a stage is noted and the command goes
\* on where it stood.
StageRaisedGoesOn(stage, arg, exc) ==
    [Called(run, stage, arg) EXCEPT !.failed = stage]

\* A stage called inside the Docker client session raised exc: the session
\* reports it, and the command ends.
StageRaised(stage, arg, exc) ==
    [Called(Ended(SessionExit(exc).status, SessionExit(exc).msg), stage, arg)
        EXCEPT !.failed = stage]

\* The temporary requirements file of the command under way:
\* `if requirements_data: ... _save_requirements_data(...) else: None`
SaveRequirements ==
    IF run.reqs # None THEN CliSaveRequirementsData(run.reqs[1]) ELSE NothingSaved

\* _save_requirements_data raised inside the session.
SaveRaised(sv) ==
    [Ended(SessionExit("UnboundLocalError").status, sv.msg) EXCEPT !.saved = sv]

\* build_image_with_dependencies, called with the resolved image and the
\* temporary requirements file, returned (to go on at pc next) or raised.
DependencyBuild(sv, o, next) ==
    IF o = "ok"
    THEN [Called(Goes(next), "deps", DependencyImage(run.uri[1], sv.path))
             EXCEPT !.saved = sv,
                    !.image = Some(DependencyImage(run.uri[1], sv.path))]
    ELSE [StageRaised("deps", DependencyImage(run.uri[1], sv.path), o)
             EXCEPT !.saved = sv]

\* build_notebook_session_image, called on the dependency image, returned
\* an image (to go on at pc next), returned none, or raised.
Bake(o, next) ==
    IF o = "ok"
    THEN [Called(Goes(next), "bake", run.image[1])
             EXCEPT !.image = Some(SessionImage(run.image[1]))]
    ELSE IF o = "none"
    THEN [Called(Ended("exit1", "Failed to build image."), "bake", run.image[1])
             EXCEPT !.failed = "bake"]
    ELSE StageRaised("bake", run.image[1], o)

\* start_container_with_notebook, called on the image the command holds.
Container(o) ==
    IF o = "ok" THEN Called(Goes("serving"), "container", run.image[1])
    ELSE StageRaised("container", run.image[1], o)

----------------------------------------------------------------------------
(* start *)

\* start, from the prompt to the line before the Docker client session:
\* [nb, exists, confirmed, reqs, written, status, msg].  n1 is the notebook
\* after _add_notebook_metadata_cell, res what _get_base_image_uri returned,
\* val what _validate_requirements_path did, rd what _read_requirements_data
\* returned, yes the user's answer to the prompt, n2 the notebook at the
\* path once the template is copied, set what _set_notebook_metadata did.
StartOutcome(n1, exists, res, val, rd, yes, n2, set) ==
    LET Stop(status, msg) ==
            [nb |-> n1, exists |-> exists, confirmed |-> FALSE, reqs |-> None,
             written |-> None, status |-> status, msg |-> msg]
    IN  IF res.status # "ok" THEN Stop(res.status, res.msg)
        ELSE IF val.status # "ok" THEN Stop(val.status, val.msg)
        ELSE IF rd.status # "ok" THEN Stop(rd.status, rd.msg)
        ELSE IF ~yes THEN Stop("abort", "Aborted.")
        ELSE IF set.out.status # "ok" THEN
            [nb |-> n2, exists |-> TRUE, confirmed |-> TRUE, reqs |-> rd.req,
             written |-> None, status |-> set.out.status, msg |-> set.out.msg]
        ELSE [nb |-> set.nb, exists |-> TRUE, confirmed |-> TRUE, reqs |-> rd.req,
              written |-> Some(set.nb), status |-> "", msg |-> ""]

\* What a caller may pass to start and publish.
BuildNameArgs == {None, Some(<<"3.9-base">>), Some(<<"bogus">>)}
BuildCustomArgs == {None, Some(<<"z">>), Some(<<DQ>>)}

\* What _validate_requirements_path does for --requirements.
Validated(file) ==
    IF file # None THEN ValidateRequirementsPath(file[1])
    ELSE Returned(None, None, None, None)

\* _set_notebook_metadata, called when resolution and the reading of the
\* requirements both returned.
SetResolved(n, res, rd) ==
    IF res.status = "ok" /\ rd.status = "ok" THEN CliSet(n, res.uri[1], rd.req)
    ELSE [nb |-> n, out |-> Returned(None, None, None, None)]

\* start, up to the Docker client session: the metadata cell is added to
\* an existing notebook, the image is resolved, the requirements file is
\* validated, the requirements are read, the user is asked, a missing
\* notebook is created from the template, the metadata is written.
Start ==
    /\ run.pc = "idle"
    /\ \E name \in BuildNameArgs, custom \in BuildCustomArgs,
          file \in ReqFileArgs, yes \in BOOLEAN :
       \E n1 \in {IF run.exists THEN CliAdd(nb) ELSE nb} :
       \E path \in {IF run.exists THEN Some(n1) ELSE None} :
       \E res \in {GetBaseImageUri(name, custom, path)} :
       \E val \in {Validated(file)} :
       \E rd \in {CliReadRequirementsData(file, path)} :
       \E n2 \in {IF run.exists THEN n1 ELSE TemplateNotebook} :
       \E set \in {SetResolved(n2, res, rd)} :
       \E r \in {StartOutcome(n1, run.exists, res, val, rd, yes, n2, set)} :
          /\ nb' = r.nb
          /\ last' = ResolveOp("start", run.exists, name, custom, res)
          /\ run' = [Run("start", IF r.status = "" THEN "session" ELSE "idle",
                         r.exists, file, IF res.status = "ok" THEN res.uri ELSE None,
                         r.confirmed, r.reqs, r.written, None, run.built)
                        EXCEPT !.status = r.status, !.msg = r.msg]
    /\ UNCHANGED impl

\* start: `with DockerClientSession(verbose=True) as docker_client`
StartSession ==
    /\ run.cmd = "start" /\ run.pc = "session"
    /\ \E o \in ClientOutcomes :
          run' = IF o = "ok" THEN Goes("deps")
                 ELSE Ended(SessionExit(o).status, SessionExit(o).msg)
    /\ UNCHANGED <<impl, nb, last>>

\* start: the temporary requirements file and build_image_with_dependencies
StartBuild ==
    /\ run.cmd = "start" /\ run.pc = "deps"
    /\ \E sv \in {SaveRequirements} :
          IF sv.status # "ok" THEN run' = SaveRaised(sv)
          ELSE \E o \in DependencyBuildOutcomes :
                 run' = [DependencyBuild(sv, o, "container")
                            EXCEPT !.built = IF o = "ok" THEN run.uri ELSE @]
    /\ UNCHANGED <<impl, nb, last>>

\* start: start_container_with_notebook and the SIGINT handler
StartContainer ==
    /\ run.cmd = "start" /\ run.pc = "container"
    /\ \E o \in ContainerOutcomes : run' = Container(o)
    /\ UNCHANGED <<impl, nb, last>>

\* start: the logs are streamed until the container stops; "Notebook has
\* stopped."
StartWait ==
    /\ run.cmd = "start" /\ run.pc = "serving"
    /\ run' = Ended("ok", "Notebook has stopped.")
    /\ UNCHANGED <<impl, nb, last>>

----------------------------------------------------------------------------
(* publish.  It is given the path of an existing notebook (on a missing    *)
(* file it raises ValueError before anything else) and works on a           *)
(* temporary copy of it.                                                    *)

\* A faulty publish: a failed resolution does not stop it, the copy is
\* uploaded as it is.
PublishOutcomeIgnoresResolution(n, res, val, rd, set, up) ==
    LET Stop(status, msg) ==
            [tmp |-> Some(n), reqs |-> None, status |-> status, msg |-> msg,
             failed |-> "", uploaded |-> FALSE]
    IN  IF res.status # "ok"
        THEN [tmp |-> Some(n), reqs |-> None,
              status |-> IF up = "ok" THEN "" ELSE "crash",
              msg |-> IF up = "ok" THEN "" ELSE up,
              failed |-> IF up = "ok" THEN "" ELSE "upload", uploaded |-> TRUE]
        ELSE IF val.status # "ok" THEN Stop(val.status, val.msg)
        ELSE IF rd.status # "ok" THEN Stop(rd.status, rd.msg)
        ELSE IF set.out.status # "ok" THEN Stop(set.out.status, set.out.msg)
        ELSE [tmp |-> Some(set.nb), reqs |-> rd.req,
              status |-> IF up = "ok" THEN "" ELSE "crash",
              msg |-> IF up = "ok" THEN "" ELSE up,
              failed |-> IF up = "ok" THEN "" ELSE "upload", uploaded |-> TRUE]

\* publish, from _get_base_image_uri to client.upload_notebook:
\* [tmp, reqs, status, msg, failed, uploaded].  n is the temporary copy,
\* res, val, rd and set are as in start, up what upload_notebook did.
PublishOutcome(n, res, val, rd, set, up) ==
    LET Stop(status, msg) ==
            [tmp |-> Some(n), reqs |-> None, status |-> status, msg |-> msg,
             failed |-> "", uploaded |-> FALSE]
    IN  IF res.status # "ok" THEN Stop(res.status, res.msg)
        ELSE IF val.status # "ok" THEN Stop(val.status, val.msg)
        ELSE IF rd.status # "ok" THEN Stop(rd.status, rd.msg)
        ELSE IF set.out.status # "ok" THEN Stop(set.out.status, set.out.msg)
        ELSE [tmp |-> Some(set.nb), reqs |-> rd.req,
              status |-> IF up = "ok" THEN "" ELSE "crash",
              msg |-> IF up = "ok" THEN "" ELSE up,
              failed |-> IF up = "ok" THEN "" ELSE "upload", uploaded |-> TRUE]

\* A faulty publish: it works on the notebook itself, not on a copy.
PublishInPlace ==
    /\ run.pc = "idle" /\ run.exists
    /\ \E name \in BuildNameArgs, custom \in BuildCustomArgs, file \in ReqFileArgs,
          up \in UploadOutcomes :
       \E res \in {GetBaseImageUri(name, custom, Some(nb))} :
       \E val \in {Validated(file)} :
       \E rd \in {CliReadRequirementsData(file, Some(nb))} :
       \E set \in {SetResolved(nb, res, rd)} :
       \E r \in {PublishOutcome(nb, res, val, rd, set, up)} :
       \E new \in {Run("publish", IF r.status = "" THEN "session" ELSE "idle", TRUE, file,
                      IF res.status = "ok" THEN res.uri ELSE None,
                      FALSE, r.reqs, None, r.tmp, run.built)} :
          /\ last' = ResolveOp("publish", TRUE, name, custom, res)
          /\ nb' = r.tmp[1]
          /\ run' = [(IF r.uploaded THEN Called(new, "upload", r.tmp[1]) ELSE new)
                        EXCEPT !.status = r.status, !.msg = r.msg, !.failed = r.failed]
    /\ UNCHANGED impl

\* publish, up to the Docker client session: the notebook is copied, the
\* image is resolved, the requirements are validated and read, the metadata
\* is written to the copy, the copy is uploaded.
Publish ==
    /\ run.pc = "idle" /\ run.exists
    /\ \E name \in BuildNameArgs, custom \in BuildCustomArgs, file \in ReqFileArgs,
          up \in UploadOutcomes :
       \E res \in {GetBaseImageUri(name, custom, Some(nb))} :
       \E val \in {Validated(file)} :
       \E rd \in {CliReadRequirementsData(file, Some(nb))} :
       \E set \in {SetResolved(nb, res, rd)} :
       \E r \in {PublishOutcome(nb, res, val, rd, set, up)} :
       \E new \in {Run("publish", IF r.status = "" THEN "session" ELSE "idle", TRUE, file,
                      IF res.status = "ok" THEN res.uri ELSE None,
                      FALSE, r.reqs, None, r.tmp, run.built)} :
          /\ last' = ResolveOp("publish", TRUE, name, custom, res)
          /\ run' = [(IF r.uploaded THEN Called(new, "upload", r.tmp[1]) ELSE new)
                        EXCEPT !.status = r.status, !.msg = r.msg, !.failed = r.failed]
    /\ UNCHANGED <<impl, nb>>

\* publish: `with DockerClientSession(verbose=verbose) as docker_client`
PublishSession ==
    /\ run.cmd = "publish" /\ run.pc = "session"
    /\ \E o \in ClientOutcomes :
          run' = IF o = "ok" THEN Goes("deps")
                 ELSE Ended(SessionExit(o).status, SessionExit(o).msg)
    /\ UNCHANGED <<impl, nb, last>>

\* publish: the temporary requirements file and build_image_with_dependencies
PublishBuild ==
    /\ run.cmd = "publish" /\ run.pc = "deps"
    /\ \E sv \in {SaveRequirements} :
          IF sv.status # "ok" THEN run' = SaveRaised(sv)
          ELSE \E o \in DependencyBuildOutcomes : run' = DependencyBuild(sv, o, "bake")
    /\ UNCHANGED <<impl, nb, last>>

\* A faulty publish: the notebook is never baked, the dependency image is
\* what gets pushed.
PublishBakeSkipped ==
    /\ run.cmd = "publish" /\ run.pc = "bake"
    /\ run' = Goes("push")
    /\ UNCHANGED <<impl, nb, last>>

\* publish: build_notebook_session_image, and the session is left
PublishBake ==
    /\ run.cmd = "publish" /\ run.pc = "bake"
    /\ \E o \in BakeOutcomes : run' = Bake(o, "push")
    /\ UNCHANGED <<impl, nb, last>>

\* publish, after the session: push_image_to_public_repo, then
\* extract_metadata_from_image and _register_and_publish_from_user_image.
\* An exception raised here is caught by nobody.
PublishPush ==
    /\ run.cmd = "publish" /\ run.pc = "push"
    /\ \E o \in PushOutcomes :
          run' = IF o = "ok"
                 THEN Called(Called(Ended("ok", "Successfully pushed image"),
                                    "push", run.image[1]),
                             "register", run.image[1])
                 ELSE [Called(Ended("crash", o), "push", run.image[1])
                          EXCEPT !.failed = "push"]
    /\ UNCHANGED <<impl, nb, last>>

----------------------------------------------------------------------------
(* debug.  typer accepts only the path of an existing file.  Everything     *)
(* happens inside the Docker client session.                                *)

\* debug, up to the builds: the session is entered, the image is resolved,
\* the requirements are validated and read.  typer.Exit raised inside the
\* session passes through __exit__ unchanged.
Debug ==
    /\ run.pc = "idle" /\ run.exists
    /\ \E file \in ReqFileArgs, o \in ClientOutcomes :
       \E res \in {DebugBaseImageUri(Some(nb))} :
       \E val \in {Validated(file)} :
       \E rd \in {CliReadRequirementsData(file, Some(nb))} :
       \E new \in {Run("debug", "idle", TRUE, file, None, FALSE, None, None, None, run.built)} :
          IF o # "ok"
          THEN /\ last' = Op("nodocker", "debug", TRUE, None, None, None, None, None,
                             NoNotebook, Exit1("docker"))
               /\ run' = [new EXCEPT !.status = SessionExit(o).status,
                                     !.msg = SessionExit(o).msg]
          ELSE /\ last' = ResolveOp("debug", TRUE, None, None, res)
               /\ run' = IF res.status # "ok"
                             THEN [new EXCEPT !.status = res.status, !.msg = res.msg]
                         ELSE IF val.status # "ok"
                             THEN [new EXCEPT !.uri = res.uri, !.status = val.status,
                                              !.msg = val.msg]
                         ELSE IF rd.status # "ok"
                             THEN [new EXCEPT !.uri = res.uri, !.status = rd.status,
                                              !.msg = rd.msg]
                         ELSE [new EXCEPT !.pc = "deps", !.uri = res.uri, !.reqs = rd.req]
    /\ UNCHANGED <<impl, nb>>

\* debug: the temporary requirements file and build_image_with_dependencies
DebugBuild ==
    /\ run.cmd = "debug" /\ run.pc = "deps"
    /\ \E sv \in {SaveRequirements} :
          IF sv.status # "ok" THEN run' = SaveRaised(sv)
          ELSE \E o \in DependencyBuildOutcomes : run' = DependencyBuild(sv, o, "bake")
    /\ UNCHANGED <<impl, nb, last>>

\* debug: build_notebook_session_image
DebugBake ==
    /\ run.cmd = "debug" /\ run.pc = "bake"
    /\ \E o \in BakeOutcomes : run' = Bake(o, "container")
    /\ UNCHANGED <<impl, nb, last>>

\* debug: the debug notebook is copied into the temporary directory, the
\* metadata is written to the copy, the container is started on it.
\* temp_dir_path was bound only where requirements were saved: without
\* requirements `temp_dir_path / "debug.ipynb"` raises UnboundLocalError.
DebugContainer ==
    /\ run.cmd = "debug" /\ run.pc = "container"
    /\ IF run.reqs = None
       THEN run' = Ended(SessionExit("UnboundLocalError").status, "temp_dir_path")
       ELSE \E set \in {CliSet(TemplateNotebook, run.uri[1], run.reqs)} :
               IF set.out.status # "ok"
               THEN run' = Ended(set.out.status, set.out.msg)
               ELSE \E o \in ContainerOutcomes :
                       run' = [Container(o) EXCEPT !.tmp = Some(set.nb)]
    /\ UNCHANGED <<impl, nb, last>>

\* debug: the logs are streamed until the container stops; "Notebook has
\* stopped."
DebugWait ==
    /\ run.cmd = "debug" /\ run.pc = "serving"
    /\ run' = Ended("ok", "Notebook has stopped.")
    /\ UNCHANGED <<impl, nb, last>>

----------------------------------------------------------------------------
(* The commands, one after another, on one notebook path of the cli store.  *)
(* The notebook there is missing, or one a user may have: without the       *)
(* metadata cell, with the cell as the program writes it (fresh, or for an  *)
(* image, or for an image and requirements), or as an edit left it (its     *)
(* assignments deleted, or a requirements format the code does not know).   *)

BuildMarkerCells ==
    {CliNewCell,
     MarkerCell(CliTag, "comments", <<>>, <<>>, <<>>),
     CliRewrite(CliNewCell, <<"z">>, None),
     CliRewrite(CliNewCell, <<"z">>, Some([format |-> "conda", contents |-> <<"pandas">>])),
     CliRewrite(CliNewCell, <<"z">>, Some([format |-> "poetry", contents |-> <<"pandas">>]))}

InitBuild ==
    /\ impl = "cli"
    /\ \/ /\ nb \in {[cells |-> cs, gm |-> None] : cs \in Layouts(BuildMarkerCells)}
          /\ run = Idle(TRUE)
       \/ /\ nb = NoNotebook
          /\ run = Idle(FALSE)
    /\ last = StoreOp("init", None, None, None, None, NoNotebook, Returned(None, None, None, None))

NextBuild ==
    \/ Start
    \/ StartSession
    \/ StartBuild
    \/ StartContainer
    \/ StartWait
    \/ Publish
    \/ PublishSession
    \/ PublishBuild
    \/ PublishBake
    \/ PublishPush
    \/ Debug
    \/ DebugBuild
    \/ DebugBake
    \/ DebugContainer
    \/ DebugWait

SpecBuild == InitBuild /\ [][NextBuild]_vars

----------------------------------------------------------------------------
(* The requirements codec of garden_ai/notebook_metadata.py                 *)
(*                                                                          *)
(* A requirements file is its suffix and its text.  The text of a .txt file *)
(* is the str that open(path, "r").readlines() splits: a sequence of        *)
(* characters whose line ends are NL.  The text of a .yml file is the       *)
(* sequence of the lines of a block-style YAML document, each line with its *)
(* indentation, its "- " marker, its key and its scalar.                    *)
(*                                                                          *)
(* A Python value (a str, None, True, a list, a dict) is a record          *)
(* [t, s, items]; the entries of a dict are kept in insertion order.        *)
(* A str of a YAML document is one atom, such as <<"pandas">>.              *)
(*                                                                          *)
(* Under SpecCodec the variable last holds the requirements file, the       *)
(* RequirementsData the program holds, and the last operation on them.      *)

MaxTextLen == 4     \* the text of a .txt file has at most this many characters
MaxEditLen == 2     \* the text typed in the widget has at most this many characters

NL == "\n"
PipChars == {"p", " ", NL}

RECURSIVE TextsOfLen(_)
TextsOfLen(n) ==
    IF n = 0 THEN {<<>>}
    ELSE {Append(t, c) : t \in TextsOfLen(n - 1), c \in PipChars}

TextsUpTo(n) == UNION {TextsOfLen(k) : k \in 0..n}

PyStr(s) == [t |-> "str", s |-> s, items |-> <<>>]
PyNone == [t |-> "null", s |-> <<>>, items |-> <<>>]
PyTrue == [t |-> "bool", s |-> <<"true">>, items |-> <<>>]
PyList(items) == [t |-> "list", s |-> <<>>, items |-> items]
PyEntry(key, value) == [t |-> "entry", s |-> key, items |-> <<value>>]
PyDict(entries) == [t |-> "map", s |-> <<>>, items |-> entries]

\* d[key] = value on a dict's entries: a key already there keeps its place.
DictPut(entries, key, value) ==
    IF \E i \in 1..Len(entries) : entries[i].s = key
    THEN [i \in 1..Len(entries) |->
             IF entries[i].s = key THEN PyEntry(key, value) ELSE entries[i]]
    ELSE Append(entries, PyEntry(key, value))

\* Python's == on values: lists compare in order, dicts whatever the order
\* of their entries.
RECURSIVE PyEq(_, _)
PyEq(a, b) ==
    /\ a.t = b.t /\ a.s = b.s /\ Len(a.items) = Len(b.items)
    /\ IF a.t = "map"
       THEN \A i \in 1..Len(a.items) : \E j \in 1..Len(b.items) :
               /\ a.items[i].s = b.items[j].s
               /\ PyEq(a.items[i].items[1], b.items[j].items[1])
       ELSE \A i \in 1..Len(a.items) : PyEq(a.items[i], b.items[i])

\* RequirementsData(file_format=..., contents=...)
RequirementsData(file_format, contents) ==
    [file_format |-> file_format, contents |-> contents]

\* pydantic's check of `contents: Union[dict, list]`
ContentsValid(v) == v.t \in {"list", "map"}

----------------------------------------------------------------------------
(* pip: the lines of a .txt file *)

\* The position of the first NL of t, or 0.
FirstNL(t) ==
    IF \E i \in 1..Len(t) : t[i] = NL
    THEN CHOOSE i \in 1..Len(t) : t[i] = NL /\ \A j \in 1..(i - 1) : t[j] # NL
    ELSE 0

\* file.readlines(): each line with its line end, the last one without if
\* the text does not end in one.
RECURSIVE ReadLines(_)
ReadLines(t) ==
    IF t = <<>> THEN <<>>
    ELSE IF FirstNL(t) = 0 THEN <<t>>
    ELSE <<SubSeq(t, 1, FirstNL(t))>> \o ReadLines(SubSeq(t, FirstNL(t) + 1, Len(t)))

\* A faulty reading of the lines: blank lines are dropped.
PipParseNoBlanks(t) ==
    SelectSeq([i \in 1..Len(ReadLines(t)) |->
                  PyStr(SelectSeq(ReadLines(t)[i], LAMBDA c : c # NL))],
              LAMBDA v : v.s # <<>>)

\* [line.replace("\n", "") for line in req_file.readlines()]
PipParse(t) ==
    [i \in 1..Len(ReadLines(t)) |->
        PyStr(SelectSeq(ReadLines(t)[i], LAMBDA c : c # NL))]

\* file_contents = ""; for line in contents: file_contents += f"{line}\n"
\* (each entry is a str, or the key of a dict's entry)
RECURSIVE PipText(_)
PipText(items) ==
    IF items = <<>> THEN <<>>
    ELSE items[1].s \o <<NL>> \o PipText(Tail(items))

\* text.split("\n")
RECURSIVE Split(_)
Split(t) ==
    IF FirstNL(t) = 0 THEN <<PyStr(t)>>
    ELSE <<PyStr(SubSeq(t, 1, FirstNL(t) - 1))>> \o Split(SubSeq(t, FirstNL(t) + 1, Len(t)))

\* if "" in contents: contents.remove("")   (the first one only)
RemoveFirstEmpty(items) ==
    IF \E i \in 1..Len(items) : items[i].s = <<>>
    THEN LET k == CHOOSE i \in 1..Len(items) :
                     items[i].s = <<>> /\ \A j \in 1..(i - 1) : items[j].s # <<>>
         IN  SubSeq(items, 1, k - 1) \o SubSeq(items, k + 1, Len(items))
    ELSE items

----------------------------------------------------------------------------
(* conda: block-style YAML, as yaml.safe_load reads it and yaml.dump writes *)
(* it.  Documents with flow collections other than [] and {}, with lists    *)
(* directly inside lists, with anchors or with tags are outside the model.  *)

\* A scalar as written: quoted or plain.
Tok(q, s) == [q |-> q, s |-> s]

\* A line: `key: scalar`, `key:`, `- scalar`, `- key: scalar`, `- key:`.
Line(ind, dash, key, val) == [ind |-> ind, dash |-> dash, key |-> key, val |-> val]

\* The plain scalars that do not read as a str.
PlainNotStr == {<<"null">>, <<"true">>, <<"[]">>, <<"{}">>, <<>>}

\* The value of a scalar: a quoted one is a str, a plain one is resolved.
ResolveScalar(tok) ==
    IF tok.q THEN PyStr(tok.s)
    ELSE CASE tok.s \in {<<"null">>, <<>>} -> PyNone
           [] tok.s = <<"true">> -> PyTrue
           [] tok.s = <<"[]">> -> PyList(<<>>)
           [] tok.s = <<"{}">> -> PyDict(<<>>)
           [] OTHER -> PyStr(tok.s)

\* The block mapping and the block sequence at indentation ind at the head
\* of the lines ls: [val, rest].
RECURSIVE ParseMap(_, _, _), ParseSeq(_, _, _)
ParseMap(ls, ind, acc) ==
    IF ls = <<>> \/ ls[1].ind # ind \/ ls[1].dash \/ ls[1].key = None
    THEN [val |-> PyDict(acc), rest |-> ls]
    ELSE IF ls[1].val # None
    THEN ParseMap(Tail(ls), ind, DictPut(acc, ls[1].key[1], ResolveScalar(ls[1].val[1])))
    ELSE IF Len(ls) > 1 /\ ls[2].dash /\ ls[2].ind >= ind
    THEN ParseMap(ParseSeq(Tail(ls), ls[2].ind, <<>>).rest, ind,
                  DictPut(acc, ls[1].key[1], ParseSeq(Tail(ls), ls[2].ind, <<>>).val))
    ELSE IF Len(ls) > 1 /\ ~ls[2].dash /\ ls[2].ind > ind
    THEN ParseMap(ParseMap(Tail(ls), ls[2].ind, <<>>).rest, ind,
                  DictPut(acc, ls[1].key[1], ParseMap(Tail(ls), ls[2].ind, <<>>).val))
    ELSE ParseMap(Tail(ls), ind, DictPut(acc, ls[1].key[1], PyNone))

ParseSeq(ls, ind, acc) ==
    IF ls = <<>> \/ ls[1].ind # ind \/ ~ls[1].dash
    THEN [val |-> PyList(acc), rest |-> ls]
    ELSE IF ls[1].key = None
    THEN ParseSeq(Tail(ls), ind,
                  Append(acc, IF ls[1].val = None THEN PyNone
                              ELSE ResolveScalar(ls[1].val[1])))
    ELSE ParseSeq(ParseMap(<<Line(ind + 2, FALSE, ls[1].key, ls[1].val)>> \o Tail(ls),
                           ind + 2, <<>>).rest, ind,
                  Append(acc, ParseMap(<<Line(ind + 2, FALSE, ls[1].key, ls[1].val)>>
                                          \o Tail(ls), ind + 2, <<>>).val))

\* yaml.safe_load(req_file): [status, val].  An empty document is None, a
\* document of one scalar is that scalar; lines left over are a syntax
\* error.
YamlSafeLoad(doc) ==
    IF doc = <<>> THEN [status |-> "ok", val |-> PyNone]
    ELSE IF ~doc[1].dash /\ doc[1].key = None
    THEN IF Len(doc) = 1 /\ doc[1].val # None
         THEN [status |-> "ok", val |-> ResolveScalar(doc[1].val[1])]
         ELSE [status |-> "crash", val |-> PyNone]
    ELSE IF doc[1].dash
    THEN IF ParseSeq(doc, doc[1].ind, <<>>).rest = <<>>
         THEN [status |-> "ok", val |-> ParseSeq(doc, doc[1].ind, <<>>).val]
         ELSE [status |-> "crash", val |-> PyNone]
    ELSE IF ParseMap(doc, doc[1].ind, <<>>).rest = <<>>
         THEN [status |-> "ok", val |-> ParseMap(doc, doc[1].ind, <<>>).val]
         ELSE [status |-> "crash", val |-> PyNone]

\* yaml.dump sorts the keys of a mapping (sort_keys=True): the keys of the
\* modelled documents, in that order.
YamlKeyOrder == <<"channels", "dependencies", "name", "pip">>

RECURSIVE SortFrom(_, _)
SortFrom(entries, i) ==
    IF i > Len(YamlKeyOrder) THEN <<>>
    ELSE SelectSeq(entries, LAMBDA e : e.s = <<YamlKeyOrder[i]>>) \o SortFrom(entries, i + 1)

SortKeys(entries) == SortFrom(entries, 1)

\* A value yaml.dump writes on the line of its key or of its "- ".
IsLeaf(v) == v.t \in {"str", "null", "bool"} \/ v.items = <<>>

\* A str is written in quotes when it is empty, begins or ends with a
\* space, or would read as something else when plain.
NeedsQuote(s) ==
    \/ s \in PlainNotStr
    \/ s # <<>> /\ (s[1] = " " \/ s[Len(s)] = " ")

\* A faulty representer: every str is written plain.
DumpScalarPlain(v) ==
    CASE v.t = "null" -> Tok(FALSE, <<"null">>)
      [] v.t = "bool" -> Tok(FALSE, <<"true">>)
      [] v.t = "list" -> Tok(FALSE, <<"[]">>)
      [] v.t = "map" -> Tok(FALSE, <<"{}">>)
      [] OTHER -> Tok(FALSE, v.s)

\* The scalar yaml.dump writes for a leaf.
DumpScalar(v) ==
    CASE v.t = "null" -> Tok(FALSE, <<"null">>)
      [] v.t = "bool" -> Tok(FALSE, <<"true">>)
      [] v.t = "list" -> Tok(FALSE, <<"[]">>)
      [] v.t = "map" -> Tok(FALSE, <<"{}">>)
      [] OTHER -> Tok(NeedsQuote(v.s), v.s)

\* The lines of the entries of a mapping (sorted) and of the items of a
\* sequence at indentation ind.  A sequence inside a mapping is not
\* indented; a mapping inside a sequence starts on the line of the "- ".
RECURSIVE DumpEntries(_, _), DumpItems(_, _)
DumpEntries(es, ind) ==
    IF es = <<>> THEN <<>>
    ELSE (IF IsLeaf(es[1].items[1])
          THEN <<Line(ind, FALSE, Some(es[1].s), Some(DumpScalar(es[1].items[1])))>>
          ELSE IF es[1].items[1].t = "list"
          THEN <<Line(ind, FALSE, Some(es[1].s), None)>>
                   \o DumpItems(es[1].items[1].items, ind)
          ELSE <<Line(ind, FALSE, Some(es[1].s), None)>>
                   \o DumpEntries(SortKeys(es[1].items[1].items), ind + 2))
         \o DumpEntries(Tail(es), ind)

DumpItems(is, ind) ==
    IF is = <<>> THEN <<>>
    ELSE (IF IsLeaf(is[1])
          THEN <<Line(ind, TRUE, None, Some(DumpScalar(is[1])))>>
          ELSE <<[DumpEntries(SortKeys(is[1].items), ind + 2)[1]
                     EXCEPT !.dash = TRUE, !.ind = ind]>>
                   \o Tail(DumpEntries(SortKeys(is[1].items), ind + 2)))
         \o DumpItems(Tail(is), ind)

\* yaml.dump(contents, req_file, allow_unicode=True)
YamlDump(v) ==
    IF IsLeaf(v) THEN <<Line(0, FALSE, None, Some(DumpScalar(v)))>>
    ELSE IF v.t = "list" THEN DumpItems(v.items, 0)
    ELSE DumpEntries(SortKeys(v.items), 0)

----------------------------------------------------------------------------
(* read_requirements_data, save_requirements_data and the widget *)

File(suffix, text) == [suffix |-> suffix, text |-> text]

\* What read_requirements_data(path) does: [status, msg, rec].
Read(status, msg, rec) == [status |-> status, msg |-> msg, rec |-> rec]

ReadRequirementsData(f) ==
    IF f.suffix = ".txt"
    THEN Read("ok", "", Some(RequirementsData("pip", PyList(PipParse(f.text)))))
    ELSE IF f.suffix \in {".yml", ".yaml"}
    THEN IF YamlSafeLoad(f.text).status # "ok" THEN Read("crash", "YAMLError", None)
         ELSE IF ~ContentsValid(YamlSafeLoad(f.text).val)
         THEN Read("crash", "ValidationError", None)
         ELSE Read("ok", "", Some(RequirementsData("conda", YamlSafeLoad(f.text).val)))
    ELSE Read("ok", "Invalid requirements file format.", None)

\* What save_requirements_data(dir, rec) does: [msg, file], the file it
\* wrote if any.
Wrote(msg, file) == [msg |-> msg, file |-> file]

SaveRequirementsData(rec) ==
    IF rec.file_format = "pip"
    THEN Wrote("", Some(File(".txt", PipText(rec.contents.items))))
    ELSE IF rec.file_format = "conda"
    THEN Wrote("", Some(File(".yml", YamlDump(rec.contents))))
    ELSE Wrote("Invalid format for requirements data, must be either pip or conda", None)

\* reqs_observer: the record after the text of the requirements box changed
ReqsObserved(rec, text) ==
    [rec EXCEPT !.contents = PyList(RemoveFirstEmpty(Split(text)))]

\* The state of the codec: the file on disk, the record held, the text the
\* record was parsed from (while it is as parsed), the record the file was
\* written from, and the last operation with its outcome.
Codec(op, file, rec, src, saved, status, msg) ==
    [op |-> op, file |-> file, rec |-> rec, src |-> src, saved |-> saved,
     status |-> status, msg |-> msg]

\* The conda environment file of tests/test_metadata.py and the value the
\* test expects for it.
CondaTestDoc ==
    << Line(0, FALSE, Some(<<"name">>), Some(Tok(FALSE, <<"garden-test">>))),
       Line(0, FALSE, Some(<<"dependencies">>), None),
       Line(0, TRUE, None, Some(Tok(FALSE, <<"python=3.9">>))),
       Line(0, TRUE, None, Some(Tok(FALSE, <<"pip">>))),
       Line(0, TRUE, Some(<<"pip">>), None),
       Line(2, TRUE, None, Some(Tok(FALSE, <<"scikit-learn==1.2.2">>))),
       Line(2, TRUE, None, Some(Tok(FALSE, <<"pandas">>))) >>

CondaTestValue ==
    PyDict(<< PyEntry(<<"name">>, PyStr(<<"garden-test">>)),
              PyEntry(<<"dependencies">>,
                      PyList(<< PyStr(<<"python=3.9">>), PyStr(<<"pip">>),
                                PyDict(<< PyEntry(<<"pip">>,
                                    PyList(<< PyStr(<<"scikit-learn==1.2.2">>),
                                              PyStr(<<"pandas">>) >>)) >>) >>)) >>)

\* The .yml documents of the model: the test's file; the same with the
\* sequence indented; a name that must stay a str, and null, true, [] and a
\* nested mapping; a sequence at top level; one scalar; nothing.
CondaDocs ==
    { CondaTestDoc,
      << Line(0, FALSE, Some(<<"dependencies">>), None),
         Line(2, TRUE, None, Some(Tok(FALSE, <<"pip">>))),
         Line(2, TRUE, Some(<<"pip">>), None),
         Line(6, TRUE, None, Some(Tok(FALSE, <<"pandas">>))),
         Line(0, FALSE, Some(<<"channels">>), Some(Tok(FALSE, <<"[]">>))) >>,
      << Line(0, FALSE, Some(<<"name">>), Some(Tok(TRUE, <<"true">>))),
         Line(0, FALSE, Some(<<"channels">>), Some(Tok(FALSE, <<"null">>))),
         Line(0, FALSE, Some(<<"pip">>), Some(Tok(FALSE, <<"true">>))),
         Line(0, FALSE, Some(<<"dependencies">>), None),
         Line(2, FALSE, Some(<<"pip">>), None),
         Line(4, FALSE, Some(<<"name">>), Some(Tok(TRUE, <<>>))) >>,
      << Line(0, TRUE, None, Some(Tok(FALSE, <<"pandas">>))),
         Line(0, TRUE, None, Some(Tok(FALSE, <<"pip">>))) >>,
      << Line(0, FALSE, None, Some(Tok(FALSE, <<"pandas">>))) >>,
      << >> }

InitCodec ==
    /\ impl = "doc"
    /\ nb = NoNotebook
    /\ run = NoRun
    /\ \/ \E t \in TextsUpTo(MaxTextLen) :
             last = Codec("init", File(".txt", t), None, None, None, "ok", "")
       \/ \E d \in CondaDocs, sfx \in {".yml", ".yaml"} :
             last = Codec("init", File(sfx, d), None, None, None, "ok", "")
       \/ last = Codec("init", File(".cfg", <<>>), None, None, None, "ok", "")

\* read_requirements_data(path) on the file
ReadRequirements ==
    /\ last.op # "crash"
    /\ \E r \in {ReadRequirementsData(last.file)} :
          last' = IF r.status = "ok"
                  THEN Codec("read", last.file, r.rec,
                             IF r.rec = None THEN None ELSE Some(last.file.text),
                             last.saved, "ok", r.msg)
                  ELSE Codec("crash", last.file, None, None, last.saved, "crash", r.msg)
    /\ UNCHANGED <<impl, nb, run>>

\* save_requirements_data(dir, rec) with the record held; the file it
\* writes is the one read next
SaveRequirementsFile ==
    /\ last.op # "crash" /\ last.rec # None
    /\ \E w \in {SaveRequirementsData(last.rec[1])} :
          last' = IF w.file = None
                  THEN Codec("save", last.file, last.rec, last.src, last.saved, "ok", w.msg)
                  ELSE Codec("save", w.file[1], last.rec, last.src, last.rec, "ok", w.msg)
    /\ UNCHANGED <<impl, nb, run>>

\* The user types in the requirements box of the widget: reqs_observer
ReqsObserver ==
    /\ last.op # "crash" /\ last.rec # None
    /\ \E t \in TextsUpTo(MaxEditLen) :
          last' = Codec("edit", last.file, Some(ReqsObserved(last.rec[1], t)),
                        None, last.saved, "ok", "")
    /\ UNCHANGED <<impl, nb, run>>

NextCodec ==
    \/ ReadRequirements
    \/ SaveRequirementsFile
    \/ ReqsObserver

SpecCodec == InitCodec /\ [][NextCodec]_vars

----------------------------------------------------------------------------
(* The launcher: start and debug from the return of                         *)
(* start_container_with_notebook to the return of the command, with the     *)
(* container and the user's Ctrl-C running beside it.                       *)
(*                                                                          *)
(* Under SpecServe the variable run holds the launcher and the container:   *)
(*   pc         "registering" (the container is started, the SIGINT handler *)
(*              is not yet set), "logs" (the loop over container.logs),     *)
(*              "reload" and "wait" (inside the try), "echo" (after it),    *)
(*              "idle" (the command has returned or died);                  *)
(*   handler    whether signal.signal(SIGINT, handler) has run;             *)
(*   container  "running", "exited" (stopped, still known to Docker) or     *)
(*              "removed";                                                  *)
(*   calls      the calls made on the container, in order;                  *)
(*   ints       where each interrupt found the launcher and the container,  *)
(*              in order;                                                   *)
(*   caught     the call whose NotFound the except branch caught, if any;   *)
(*   lines      how many log lines were printed.                            *)
(* Python runs a signal handler in the main thread, between two bytecodes   *)
(* of the main flow; an exception the handler raises is raised there.       *)
(* With the default handler a SIGINT raises KeyboardInterrupt.              *)

MaxInterrupts == 2  \* the user presses Ctrl-C at most this many times
MaxLogLines == 2    \* the container prints at most this many lines

Serve(cmd, pc, handler, container, calls, ints, lines, status, msg) ==
    [cmd |-> cmd, pc |-> pc, handler |-> handler, container |-> container,
     calls |-> calls, ints |-> ints, lines |-> lines, caught |-> "",
     status |-> status, msg |-> msg]

\* An interrupt, as delivered to the launcher r.
Delivered(r) == [r EXCEPT !.ints = Append(@, [pc |-> r.pc, container |-> r.container])]

\* The launcher's command is over with this outcome.
Over(status, msg) == [run EXCEPT !.pc = "idle", !.status = status, !.msg = msg]

\* What the Docker SDK does with a call on a container that is gone:
\* docker.errors.NotFound.
Gone == run.container = "removed"

\* The pcs inside `try: container.reload(); container.wait()`
InTry == {"reload", "wait"}

InitServe ==
    /\ impl = "cli"
    /\ nb = NoNotebook
    /\ last = NoRun
    /\ \E cmd \in {"start", "debug"} :
          run = Serve(cmd, "registering", FALSE, "running", <<>>, <<>>, 0, "", "")

\* _register_container_sigint_handler(container)
Register ==
    /\ run.pc = "registering"
    /\ run' = [run EXCEPT !.handler = TRUE, !.pc = "logs"]
    /\ UNCHANGED <<impl, nb, last>>

\* for line in container.logs(stream=True): print(line)
StreamLine ==
    /\ run.pc = "logs" /\ run.container = "running" /\ run.lines < MaxLogLines
    /\ run' = [run EXCEPT !.lines = @ + 1]
    /\ UNCHANGED <<impl, nb, last>>

\* The stream ends once the container has stopped.
LogsEnd ==
    /\ run.pc = "logs" /\ run.container # "running"
    /\ run' = [run EXCEPT !.pc = "reload", !.calls = Append(@, "logs")]
    /\ UNCHANGED <<impl, nb, last>>

\* A faulty launcher: NotFound from container.reload() is treated as an
\* error.
ReloadRaises ==
    /\ run.pc = "reload"
    /\ run' = IF Gone THEN [Over("crash", "NotFound") EXCEPT !.calls = Append(@, "reload"),
                                                           !.caught = "reload"]
              ELSE [run EXCEPT !.pc = "wait", !.calls = Append(@, "reload")]
    /\ UNCHANGED <<impl, nb, last>>

\* container.reload(), with `except docker.errors.NotFound: pass`
Reload ==
    /\ run.pc = "reload"
    /\ run' = [run EXCEPT !.pc = IF Gone THEN "echo" ELSE "wait",
                          !.caught = IF Gone THEN "reload" ELSE @,
                          !.calls = Append(@, "reload")]
    /\ UNCHANGED <<impl, nb, last>>

\* container.wait(), with `except docker.errors.NotFound: pass`: it returns
\* once the container has stopped.
Wait ==
    /\ run.pc = "wait" /\ run.container # "running"
    /\ run' = [run EXCEPT !.pc = "echo", !.calls = Append(@, "wait"),
                          !.caught = IF Gone THEN "wait" ELSE @]
    /\ UNCHANGED <<impl, nb, last>>

\* typer.echo("Notebook has stopped."); return
Stopped ==
    /\ run.pc = "echo"
    /\ run' = Over("ok", "Notebook has stopped.")
    /\ UNCHANGED <<impl, nb, last>>

\* The notebook server is shut down from the browser: the container exits.
ContainerExits ==
    /\ run.pc # "idle" /\ run.container = "running"
    /\ run' = [run EXCEPT !.container = "exited"]
    /\ UNCHANGED <<impl, nb, last>>

\* Docker removes the container that has exited.
ContainerRemoved ==
    /\ run.pc # "idle" /\ run.container = "exited"
    /\ run' = [run EXCEPT !.container = "removed"]
    /\ UNCHANGED <<impl, nb, last>>

\* A faulty handler: it stops the container and then lets the default
\* handler raise KeyboardInterrupt.
HandlerThenKeyboardInterrupt(r) ==
    IF r.pc \in InTry
    THEN [r EXCEPT !.calls = @ \o <<"stop", "stop">>, !.pc = "echo",
                   !.container = IF @ = "running" THEN "exited" ELSE @]
    ELSE [r EXCEPT !.calls = Append(@, "stop"), !.pc = "idle",
                   !.status = "crash", !.msg = "KeyboardInterrupt"]

\* The launcher r after the handler of _register_container_sigint_handler
\* ran: "Stopping notebook...", container.stop().  On a container that is
\* gone stop raises NotFound in the main flow: inside the try it is caught,
\* anywhere else it ends the command.
Handler(r) ==
    IF r.container # "removed"
    THEN [r EXCEPT !.calls = Append(@, "stop"),
                   !.container = IF @ = "running" THEN "exited" ELSE @]
    ELSE IF r.pc \in InTry
    THEN [r EXCEPT !.calls = Append(@, "stop"), !.pc = "echo", !.caught = "stop"]
    ELSE [r EXCEPT !.calls = Append(@, "stop"), !.pc = "idle",
                   !.status = "crash", !.msg = "NotFound"]

\* The user presses Ctrl-C.  Before the handler is set the default handler
\* raises KeyboardInterrupt inside the DockerClientSession, whose __exit__
\* lets it through: the command dies and nothing stops the container.
Interrupt ==
    /\ run.pc # "idle" /\ Len(run.ints) < MaxInterrupts
    /\ run' = IF run.handler
              THEN Handler(Delivered(run))
              ELSE [Delivered(run) EXCEPT !.pc = "idle", !.status = "crash",
                                          !.msg = "KeyboardInterrupt"]
    /\ UNCHANGED <<impl, nb, last>>

NextServe ==
    \/ Register
    \/ StreamLine
    \/ LogsEnd
    \/ Reload
    \/ Wait
    \/ Stopped
    \/ ContainerExits
    \/ ContainerRemoved
    \/ Interrupt

SpecServe == InitServe /\ [][NextServe]_vars

----------------------------------------------------------------------------
(* A build that fails, and DockerClientSession.handle_docker_build_failure. *)
(*                                                                          *)
(* Under SpecFailure the variable run holds one build of one command: the   *)
(* session's verbose flag, whether the build prints its log as it goes, the *)
(* exception the build raises with its captured log, and what has been      *)
(* printed.  A log line either contains the text Traceback or does not.     *)

MaxLogLen == 3      \* a captured build log has at most this many lines

LogLines == {"plain", "Traceback"}

\* What is printed: a line of the build log, a message, or the last line
\* quoted after "This is where the error occurred:".
Out(k, v) == [k |-> k, v |-> v]

LogOut(log) == [i \in 1..Len(log) |-> Out("log", log[i])]

\* The session and the print_logs argument of each command's builds:
\* start and debug open DockerClientSession(verbose=True) and leave
\* print_logs to its default; publish passes its --verbose to both.
PrintLogsDefault == TRUE

SessionVerbose(cmd, v) == IF cmd = "publish" THEN v ELSE TRUE
PrintLogs(cmd, v) == IF cmd = "publish" THEN v ELSE PrintLogsDefault

\* The exception each build stage raises when the build fails.
StageErrors(stage) ==
    IF stage = "deps" THEN {"DockerPreBuildFailure", "BuildError"}
    ELSE {"DockerBuildFailure", "BuildError"}

\* The classification handle_docker_build_failure prints after the log.
Classification(exc, log) ==
    <<Out("err", "Fatal Docker build error")>>
    \o (IF exc = "DockerPreBuildFailure"
        THEN <<Out("err", "Garden could not set up your base Docker image.")>>
        ELSE IF exc = "DockerBuildFailure"
        THEN IF log # <<>> /\ log[Len(log)] = "Traceback"
             THEN <<Out("err", "This is likely because of a bug in your notebook code."),
                    Out("quote", log[Len(log)])>>
             ELSE <<Out("err", "It looks like it is not an error in your notebook code.")>>
        ELSE <<>>)

\* A faulty handler: it prints the log whatever the verbose flag.
HandleAlwaysPrintsLog(verbose, exc, log) ==
    LogOut(log) \o Classification(exc, log)

\* handle_docker_build_failure(e): what it prints before typer.Exit(1)
HandleDockerBuildFailure(verbose, exc, log) ==
    (IF ~verbose THEN LogOut(log) ELSE <<>>) \o Classification(exc, log)

Failing(cmd, verbose, stage, exc, log, pc, out, code) ==
    [cmd |-> cmd, verbose |-> verbose, stage |-> stage, exc |-> exc, log |-> log,
     pc |-> pc, out |-> out, code |-> code]

InitFailure ==
    /\ impl = "cli"
    /\ nb = NoNotebook
    /\ last = NoRun
    /\ \E cmd \in {"start", "debug", "publish"}, v \in BOOLEAN, stage \in {"deps", "bake"},
          log \in SeqsUpTo(LogLines, MaxLogLen) :
       \E exc \in StageErrors(stage) :
          /\ cmd = "start" => stage = "deps"
          /\ cmd # "publish" => v
          /\ run = Failing(cmd, v, stage, exc, log, "building", <<>>, 0)

\* The build runs, printing its log if asked to, and raises.
BuildRaises ==
    /\ run.pc = "building"
    /\ run' = [run EXCEPT !.pc = "raised",
                          !.out = IF PrintLogs(run.cmd, run.verbose) THEN LogOut(run.log)
                                  ELSE <<>>]
    /\ UNCHANGED <<impl, nb, last>>

\* DockerClientSession.__exit__: isinstance(exc_val, docker.errors.BuildError)
SessionHandles ==
    /\ run.pc = "raised"
    /\ run' = [run EXCEPT !.pc = "idle", !.code = 1,
                          !.out = @ \o HandleDockerBuildFailure(
                                          SessionVerbose(run.cmd, run.verbose),
                                          run.exc, run.log)]
    /\ UNCHANGED <<impl, nb, last>>

NextFailure ==
    \/ BuildRaises
    \/ SessionHandles

SpecFailure == InitFailure /\ [][NextFailure]_vars

----------------------------------------------------------------------------
(* backend_toggle and BackendClient: garden_ai/backend_client.py            *)
(*                                                                          *)
(* Under SpecToggle the variable run holds the module backend_client: the   *)
(* environment its last import read, whether the name BackendClient is      *)
(* bound, GardenConstants.GARDEN_ENDPOINT, BackendClient._call, what each   *)
(* method name of the class is bound to, and the requests sent.  The        *)
(* decorator runs while the class body is executed, so before the class     *)
(* statement has bound the name BackendClient on a first import.            *)

MaxImports == 2     \* the module is imported, then reloaded at most once
MaxRequests == 2    \* at most this many requests are recorded

\* The decorated methods, in the order of the class body, with the resource
\* each one calls.
ToggledMethods == <<"mint_doi_on_datacite", "update_doi_on_datacite", "upload_notebook">>

Resource(m) == IF m = "upload_notebook" THEN "/notebook" ELSE "/doi"

\* GARDEN_ENV and the entries of GARDEN_BACKEND_TOGGLES.
GardenEnvs == {"", "dev", "local", "staging"}
ToggleEntries == {"mint_doi_on_datacite", "upload_notebook", "upload_notebook_v2"}

\* GardenConstants.GARDEN_ENDPOINT as the program starts
GARDEN_ENDPOINT == "GARDEN_ENDPOINT"

env_url_mapping(env) ==
    CASE env = "dev" -> "https://garden-service-dev"
      [] env = "prod" -> "https://garden-service-prod"
      [] env = "local" -> "http://localhost:5500"

Recognized(env) == env \in {"dev", "prod", "local"}

\* `func.__name__ in toggles`: a substring test on the variable's text.
NameInToggles(m, toggles) ==
    \E e \in toggles : e = m \/ (m = "upload_notebook" /\ e = "upload_notebook_v2")

\* backend_toggle(func): the function itself, or a wrapper that closes over
\* the endpoint and BackendClient._call as they are now; reading
\* BackendClient._call raises NameError while the name is not bound.
backend_toggle(m, env, toggles, bound, endpoint, call) ==
    IF ~Recognized(env) \/ ~NameInToggles(m, toggles)
    THEN [kind |-> "plain"]
    ELSE IF ~bound THEN [kind |-> "NameError"]
    ELSE [kind |-> "wrapped", old_url |-> endpoint, new_url |-> env_url_mapping(env),
          old_call_method |-> call]

\* The class body from its i-th decorated method on: the bindings made, or
\* the exception that ended it.
RECURSIVE ClassBody(_, _, _, _, _, _, _)
ClassBody(i, made, env, toggles, bound, endpoint, call) ==
    IF i > Len(ToggledMethods) THEN [ok |-> TRUE, method |-> made]
    ELSE LET m == ToggledMethods[i]
             f == backend_toggle(m, env, toggles, bound, endpoint, call)
         IN  IF f.kind = "NameError" THEN [ok |-> FALSE, method |-> made]
             ELSE ClassBody(i + 1, [made EXCEPT ![m] = f], env, toggles, bound,
                            endpoint, call)

Undefined == [m \in {ToggledMethods[i] : i \in 1..Len(ToggledMethods)} |-> [kind |-> "undefined"]]

\* BackendClient._call, or _call_with_trailing_slash in its place: the URL
\* of the request.
Url(endpoint, call, resource) ==
    IF call = "_call_with_trailing_slash" THEN <<endpoint, resource, "/">>
    ELSE <<endpoint, resource>>

Module(pc, imports, env, toggles, bound, endpoint, call, method, requests, calls, status) ==
    [cmd |-> "import", pc |-> pc, imports |-> imports, env |-> env, toggles |-> toggles,
     bound |-> bound, endpoint |-> endpoint, call |-> call, method |-> method,
     requests |-> requests, calls |-> calls, status |-> status]

InitToggle ==
    /\ impl = "cli"
    /\ nb = NoNotebook
    /\ last = NoRun
    /\ run = Module("start", 0, "", {}, FALSE, GARDEN_ENDPOINT, "_call", Undefined, <<>>,
                    <<>>, "")

\* import garden_ai.backend_client, or its reload: the class body is
\* executed under the environment of the moment, then the class is bound.
Import ==
    /\ run.pc \in {"start", "ready"} /\ run.imports < MaxImports
    /\ \E env \in GardenEnvs, toggles \in SUBSET ToggleEntries :
       \E body \in {ClassBody(1, Undefined, env, toggles, run.bound, run.endpoint, "_call")} :
          run' = IF body.ok
                 THEN [run EXCEPT !.pc = "ready", !.imports = @ + 1, !.env = env,
                                  !.toggles = toggles, !.bound = TRUE, !.call = "_call",
                                  !.method = body.method, !.status = "ok"]
                 ELSE [run EXCEPT !.pc = "failed", !.imports = @ + 1, !.env = env,
                                  !.toggles = toggles, !.method = body.method,
                                  !.status = "NameError"]
    /\ UNCHANGED <<impl, nb, last>>

\* A faulty wrapper: nothing is restored when the method raises.
CallRestoresOnReturnOnly(m, f, raises) ==
    [m |-> m, kind |-> f.kind, raises |-> raises,
     before |-> [endpoint |-> run.endpoint, call |-> run.call],
     url |-> Url(f.new_url, "_call_with_trailing_slash", Resource(m)),
     after |-> IF raises THEN [endpoint |-> f.new_url, call |-> "_call_with_trailing_slash"]
               ELSE [endpoint |-> f.old_url, call |-> f.old_call_method]]

\* monkey_patch_url(*args, **kwargs): the endpoint and _call are replaced,
\* the method sends its request, and the finally clause puts back what the
\* wrapper closed over.
CallWrapped(m, f, raises) ==
    [m |-> m, kind |-> f.kind, raises |-> raises,
     before |-> [endpoint |-> run.endpoint, call |-> run.call],
     url |-> Url(f.new_url, "_call_with_trailing_slash", Resource(m)),
     after |-> [endpoint |-> f.old_url, call |-> f.old_call_method]]

\* A method that backend_toggle returned as it was.
CallPlain(m, f, raises) ==
    [m |-> m, kind |-> f.kind, raises |-> raises,
     before |-> [endpoint |-> run.endpoint, call |-> run.call],
     url |-> Url(run.endpoint, run.call, Resource(m)),
     after |-> [endpoint |-> run.endpoint, call |-> run.call]]

\* A call of a method of BackendClient; it returns or raises.
CallMethod ==
    /\ run.pc = "ready" /\ Len(run.requests) < MaxRequests
    /\ \E i \in 1..Len(ToggledMethods), raises \in BOOLEAN :
       \E m \in {ToggledMethods[i]} :
       \E c \in {IF run.method[m].kind = "wrapped"
                 THEN CallWrapped(m, run.method[m], raises)
                 ELSE CallPlain(m, run.method[m], raises)} :
          run' = [run EXCEPT !.requests = Append(@, c.url), !.calls = Append(@, c),
                             !.endpoint = c.after.endpoint, !.call = c.after.call]
    /\ UNCHANGED <<impl, nb, last>>

NextToggle ==
    \/ Import
    \/ CallMethod

SpecToggle == InitToggle /\ [][NextToggle]_vars

----------------------------------------------------------------------------
(* Properties of start, under SpecBuild                                     *)

\* start resolved an image and the user confirmed.
StartConfirmed == run.cmd = "start" /\ run.uri # None /\ run.confirmed

\* The image URI a reader finds stored in the notebook is u.
StoredUriIs(u) == CliGet(nb).status = "ok" /\ CliGet(nb).uri = u

\* C11: after every start in which resolution succeeds and the user
\* confirms, the image URI stored in the notebook equals the resolved URI,
\* from before the build begins; for a notebook created from a template as
\* for one that existed.
C11_StoredUriIsResolved ==
    StartConfirmed => StoredUriIs(run.uri)

\* What holds of C11: once _set_notebook_metadata has returned, the stored
\* text is the resolved URI between double quotes.
StoredTextIsResolved ==
    (StartConfirmed /\ run.written # None) =>
        /\ HasTag(nb, CliTag)
        /\ FirstTagged(nb, CliTag).img = FormatUriLine(run.uri[1])

\* C12: once a build has succeeded for the notebook, in every reachable
\* state, across any sequence of starts (those whose build fails included),
\* the URI recorded in the notebook is that of the most recent successfully
\* built image.
C12_RecordedIsLastBuilt ==
    run.built # None => StoredUriIs(run.built)

\* A start whose dependency build failed has ended.
BuildFailed ==
    /\ run.cmd = "start" /\ run.pc = "idle"
    /\ run.failed = "deps" /\ run.status = "exit1"

\* What the code does instead of C12: the URI is recorded before the build,
\* so after a failed build the notebook records the image that failed.
RecordedIsLastResolved ==
    (BuildFailed /\ run.uri # Some(<<DQ>>)) => StoredUriIs(run.uri)

\* start was given --requirements naming an existing file with a supported
\* suffix, and got as far as writing the metadata.
FileGiven ==
    /\ run.cmd = "start" /\ run.written # None
    /\ run.file # None /\ run.file[1].exists
    /\ run.file[1].suffix \in {".txt", ".yml", ".yaml"}

\* The requirements the file of this start holds.
FileRequirements ==
    Some([format |-> IF run.file[1].suffix = ".txt" THEN "pip" ELSE "conda",
          contents |-> run.file[1].contents])

\* The requirements of this start are q: those it builds with, and those a
\* reader finds recorded in the notebook.
RequirementsAre(q) ==
    /\ run.reqs = q
    /\ CliGet(nb).status = "ok" /\ CliGet(nb).req = q
    /\ run.stages # <<>> =>
          /\ run.saved.path # None
          /\ run.saved.contents = q[1].contents

\* C13: whenever --requirements names an existing file with a supported
\* extension, the requirements used for the build and recorded in the
\* notebook are those parsed from the file, whatever the notebook had
\* stored and whether or not the notebook file already existed.  (A URI
\* that does not read back, the matter of C6, is set aside.)
C13_FileRequirementsWin ==
    (FileGiven /\ run.uri # Some(<<DQ>>)) => RequirementsAre(FileRequirements)

\* What holds of C13: the file wins on a notebook that already existed.
FileWinsOnExistingNotebook ==
    (FileGiven /\ last.exists /\ run.uri # Some(<<DQ>>)) => RequirementsAre(FileRequirements)

\* What the code does for a notebook still to be created: the file is not
\* read, and no requirements are used or recorded.
FileIgnoredForNewNotebook ==
    (FileGiven /\ ~last.exists) => (run.reqs = None /\ run.saved.path = None)

\* The command under way has serialized a requirements record whose format
\* is neither pip nor conda.
SerializedUnknownFormat ==
    /\ run.reqs # None /\ run.reqs[1].format \notin {"pip", "conda"}
    /\ run.saved # NothingSaved

\* C16: serializing a requirements record whose format is neither pip nor
\* conda writes no file, returns no path and is only a warning: the command
\* does not abort or crash, and goes on to build without requirements.
C16_UnknownFormatIsAWarning ==
    SerializedUnknownFormat =>
        /\ run.saved.status = "ok" /\ run.saved.path = None
        /\ run.status # "crash"
        /\ \E i \in 1..Len(run.stages) : run.stages[i].stage = "deps"

\* What the code does for such a record with entries: it raises before any
\* image is built.
UnknownFormatCrashes ==
    (SerializedUnknownFormat /\ run.reqs[1].contents # <<>>) =>
        /\ run.status = "crash"
        /\ \A i \in 1..Len(run.stages) : run.stages[i].stage = "upload"

----------------------------------------------------------------------------
(* Properties of the build pipeline, under SpecBuild                        *)

\* The names of the stages the command under way has called, in order.
StageNames == [i \in 1..Len(run.stages) |-> run.stages[i].stage]

\* The stages of each command, in the order of its code.
Pipeline(cmd) ==
    CASE cmd = "start" -> <<"deps", "container">>
      [] cmd = "debug" -> <<"deps", "bake", "container">>
      [] cmd = "publish" -> <<"upload", "deps", "bake", "push", "register">>
      [] OTHER -> <<>>

IsPrefix(s, t) == Len(s) <= Len(t) /\ s = SubSeq(t, 1, Len(s))

\* C18: the pipeline is strictly sequential and skips no stage on success.
\* A publish that succeeds has built the dependency layer on the resolved
\* image, then baked the notebook on the dependency image, then pushed the
\* baked image, each exactly once and in that order; start and debug never
\* push.
C18_PipelineInOrder ==
    /\ IsPrefix(StageNames, Pipeline(run.cmd))
    /\ (run.cmd = "publish" /\ run.status = "ok") =>
          /\ StageNames = Pipeline("publish")
          /\ run.stages[2].arg = DependencyImage(run.uri[1], run.saved.path)
          /\ run.stages[3].arg = run.stages[2].arg
          /\ run.stages[4].arg = SessionImage(run.stages[3].arg)
    /\ (run.cmd \in {"start", "debug"} /\ run.status = "ok") =>
          StageNames = Pipeline(run.cmd)
    /\ run.cmd \in {"start", "debug"} =>
          \A i \in 1..Len(run.stages) : run.stages[i].stage # "push"

\* A publish with requirements ran to its end.
C18_Witness ==
    /\ run.cmd = "publish" /\ run.status = "ok" /\ run.pc = "idle"
    /\ run.saved.path # None
    /\ Len(run.stages) = 5

UserCellsOf(n) == SelectSeq(n.cells, LAMBDA c : c.tag = "")

\* start failed in a build stage.
StartFailedInBuild == run.cmd = "start" /\ run.failed \in {"deps", "container"}

\* C20: a failed build does not corrupt the metadata already written.
\* After start fails in a build stage, reading the notebook's metadata
\* returns exactly the record written at the end of resolution (the
\* resolved URI, and the requirements written), and the user's cells are as
\* they were.
C20_ReadReturnsWritten ==
    StartFailedInBuild =>
        /\ CliGet(nb).status = "ok"
        /\ CliGet(nb).uri = run.uri
        /\ run.reqs # None => CliGet(nb).req = run.reqs
        /\ UserCellsOf(nb) = UserCells(NumUserCells)

\* What the code guarantees: the build stages of start leave the notebook
\* as _set_notebook_metadata wrote it, so a read gives after the failure
\* what it gave before the build, and the user's cells are as they were.
FailedBuildKeepsNotebook ==
    StartFailedInBuild =>
        /\ run.written # None /\ nb = run.written[1]
        /\ CliGet(nb).status = "ok" =>
              /\ CliGet(nb).uri = run.uri
              /\ run.reqs # None => CliGet(nb).req = run.reqs
        /\ UserCellsOf(nb) = UserCells(NumUserCells)

\* The failed build whose notebook no longer reads: the custom image URI
\* holds a double quote.
FailedBuildUnreadable ==
    StartFailedInBuild /\ run.uri = Some(<<DQ>>) => CliGet(nb).status = "crash"

----------------------------------------------------------------------------
(* Properties of the requirements codec, under SpecCodec                    *)

\* The number of line ends of a text.
CountNL(t) == Cardinality({i \in 1..Len(t) : t[i] = NL})

NewlineTerminated(t) == t # <<>> /\ t[Len(t)] = NL

\* C14: pip requirements round-trip.  Parsing a .txt file gives format pip
\* with one entry per line in file order, the line end stripped and blank
\* lines kept as empty entries; serializing that value writes one entry per
\* line, newline-terminated, and for every newline-terminated text the file
\* written is the original text.
C14_PipRoundTrip ==
    /\ (last.op = "read" /\ last.file.suffix = ".txt") =>
          /\ last.rec # None /\ last.rec[1].file_format = "pip"
          /\ last.rec[1].contents.t = "list"
          /\ LET t == last.file.text
                 items == last.rec[1].contents.items
             IN  /\ \A i \in 1..Len(items) :
                        items[i].t = "str" /\ \A k \in 1..Len(items[i].s) : items[i].s[k] # NL
                 /\ Len(items) = CountNL(t) + (IF t = <<>> \/ NewlineTerminated(t) THEN 0 ELSE 1)
                 /\ \A i \in 1..Len(items) :
                        \E a \in 0..Len(t) :
                           /\ SubSeq(t, a + 1, a + Len(items[i].s)) = items[i].s
                           /\ CountNL(SubSeq(t, 1, a)) = i - 1
                           /\ a = 0 \/ t[a] = NL
                           /\ a + Len(items[i].s) = Len(t) \/ t[a + Len(items[i].s) + 1] = NL
    /\ (last.op = "save" /\ last.src # None /\ last.rec[1].file_format = "pip") =>
          /\ last.file.suffix = ".txt"
          /\ NewlineTerminated(last.src[1]) => last.file.text = last.src[1]
          /\ last.file.text = <<>> \/ NewlineTerminated(last.file.text)
          /\ CountNL(last.file.text) = Len(last.rec[1].contents.items)

\* A text with a blank line in the middle and a line of spaces was read and
\* written back.
C14_Witness ==
    /\ last.op = "save" /\ last.src # None /\ last.rec[1].file_format = "pip"
    /\ last.src[1] = <<"p", NL, NL, " ", NL>>
    /\ last.file.text = last.src[1]

\* The record held is a conda record read from the file that was written
\* from the record saved.
RereadConda ==
    /\ last.op \in {"read", "crash"} /\ last.saved # None
    /\ last.saved[1].file_format = "conda"

\* C15: conda requirements round-trip.  Parsing a .yml or .yaml document
\* gives format conda with the document's structure as loaded (for the
\* environment file of the tests, the value the tests expect), and
\* serializing a conda record and parsing the file written gives the same
\* nested structure, a pip list nested in the dependencies included.
C15_CondaRoundTrip ==
    /\ (last.op = "read" /\ last.file.suffix \in {".yml", ".yaml"}) =>
          /\ last.rec # None /\ last.rec[1].file_format = "conda"
          /\ last.rec[1].contents.t \in {"list", "map"}
          /\ last.file.text = CondaTestDoc => PyEq(last.rec[1].contents, CondaTestValue)
    /\ RereadConda =>
          /\ last.op = "read" /\ last.rec # None
          /\ last.rec[1].file_format = "conda"
          /\ PyEq(last.rec[1].contents, last.saved[1].contents)

\* The test's environment file was read, written and read again: the keys
\* come back in another order, the structure is the same.
C15_Witness ==
    /\ RereadConda /\ last.op = "read"
    /\ PyEq(last.rec[1].contents, CondaTestValue)
    /\ last.rec[1].contents # CondaTestValue
    /\ last.file.text # CondaTestDoc

\* A str that reads as a boolean when plain came back as a str.
QuotedStrComesBack ==
    RereadConda /\ last.rec # None /\ last.rec[1].contents.t = "map"
        /\ \E i \in 1..Len(last.rec[1].contents.items) :
              last.rec[1].contents.items[i] = PyEntry(<<"name">>, PyStr(<<"true">>))

IsMapping(v) == v.t = "map"
IsFlatList(v) == v.t = "list" /\ \A i \in 1..Len(v.items) : v.items[i].t = "str"

\* C17: every RequirementsData produced by an operation (parsing a file,
\* editing through the widget) has format and contents in agreement: a pip
\* record never has mapping contents and a conda record never has flat-list
\* contents.
C17_FormatAndShapeAgree ==
    last.rec # None =>
        /\ last.rec[1].file_format = "pip" => ~IsMapping(last.rec[1].contents)
        /\ last.rec[1].file_format = "conda" => ~IsFlatList(last.rec[1].contents)

\* What holds: a pip record is always a flat list of strs.
PipIsFlatList ==
    (last.rec # None /\ last.rec[1].file_format = "pip") => IsFlatList(last.rec[1].contents)

\* What the widget does to a conda record: its contents become a flat list.
EditedCondaIsFlatList ==
    (last.op = "edit" /\ last.rec[1].file_format = "conda") => IsFlatList(last.rec[1].contents)

----------------------------------------------------------------------------
(* Properties of the launcher, under SpecServe                              *)

\* How many times the launcher asked Docker to stop the container.
StopRequests == Cardinality({i \in 1..Len(run.calls) : run.calls[i] = "stop"})

\* One interrupt was delivered, while the logs were streaming from the
\* running container or while the launcher was in reload or wait.
OneInterruptWhileServing ==
    /\ Len(run.ints) = 1
    /\ \/ run.ints[1].pc = "logs" /\ run.ints[1].container = "running"
       \/ run.ints[1].pc \in InTry

\* C21: interrupt safety.  An interrupt delivered while the launcher is
\* streaming logs or is in the blocking wait makes it request
\* container.stop exactly once, never a kill and never a second stop from
\* the KeyboardInterrupt branch, and the command does not die: it ends with
\* "Notebook has stopped."
C21_InterruptStopsOnce ==
    OneInterruptWhileServing =>
        /\ StopRequests = 1
        /\ \A i \in 1..Len(run.calls) : run.calls[i] # "kill"
        /\ run.status # "crash"
        /\ run.pc = "idle" => run.status = "ok" /\ run.msg = "Notebook has stopped."

\* The user pressed Ctrl-C once while the logs were streaming, and the
\* command has returned.
C21_Witness ==
    /\ OneInterruptWhileServing /\ run.ints[1].pc = "logs"
    /\ run.pc = "idle" /\ run.status = "ok"
    /\ StopRequests = 1

\* C22: a container already removed when the launcher reloads or waits on
\* it is a normal stop.  NotFound from reload, from wait or from the
\* handler's stop inside the try is caught; the command raises no error and
\* returns with "Notebook has stopped.", for start and for debug.
C22_RemovedIsNormalStop ==
    (run.caught # "" /\ \A i \in 1..Len(run.ints) : run.ints[i].pc # "echo") =>
        /\ run.pc \in {"echo", "idle"}
        /\ run.status # "crash"
        /\ run.pc = "idle" => run.status = "ok" /\ run.msg = "Notebook has stopped."

\* debug returned after reload found the container removed by the handler's
\* stop.
C22_Witness ==
    /\ run.cmd = "debug" /\ run.caught = "reload"
    /\ run.ints # <<>> /\ run.ints[1].pc = "logs"
    /\ run.pc = "idle" /\ run.status = "ok"

\* C29: once the container is started, an interrupt delivered at any moment
\* before the command returns results in a stop request on the container:
\* the command never ends after an interrupt with no stop requested.
C29_InterruptAlwaysStops ==
    run.ints # <<>> => StopRequests >= 1

\* What holds: every interrupt delivered once the handler is set makes one
\* stop request.
InterruptStopsOnceRegistered ==
    (run.ints # <<>> /\ run.ints[1].pc # "registering") => StopRequests = Len(run.ints)

\* What happens before: the command dies with the container running and no
\* stop requested.
InterruptBeforeRegisteringKills ==
    (run.ints # <<>> /\ run.ints[1].pc = "registering") =>
        /\ run.status = "crash" /\ run.msg = "KeyboardInterrupt"
        /\ StopRequests = 0
        /\ run.container = run.ints[1].container

----------------------------------------------------------------------------
(* Properties of the build-failure report, under SpecFailure                *)

\* The lines of the build log that were printed, in order.
PrintedLog ==
    [i \in 1..Len(SelectSeq(run.out, LAMBDA o : o.k = "log")) |->
        SelectSeq(run.out, LAMBDA o : o.k = "log")[i].v]

Reported(msg) == \E i \in 1..Len(run.out) : run.out[i] = Out("err", msg)

QuietEmptyLogIsNotTheCode ==
    /\ run.pc = "idle" /\ run.cmd = "publish" /\ ~run.verbose
    /\ run.exc = "DockerBuildFailure" /\ run.log = <<>>
    /\ Reported("It looks like it is not an error in your notebook code.")

----------------------------------------------------------------------------
(* Properties of start, debug and publish as wholes, under SpecBuild        *)

ResolutionErrors == {"conflict", "unknown", "noimage"}

\* The command under way is the one whose resolution `last` records, and
\* that resolution failed.
ResolutionFailed ==
    /\ run.cmd # "" /\ last.cmd = run.cmd /\ last.op = "resolve"
    /\ last.out.status = "exit1" /\ last.out.msg \in ResolutionErrors

\* C23: when the resolution of the base image fails (conflicting options,
\* unknown base image, no base image specified), start, debug and publish
\* end with exit code 1 before any build, upload, push or container start.
C23_ResolutionAbortsFirst ==
    ResolutionFailed =>
        /\ run.pc = "idle" /\ run.status = "exit1" /\ run.msg = last.out.msg
        /\ run.stages = <<>> /\ run.image = None /\ run.saved = NothingSaved

\* publish was given a base image name that is not in the catalog.
C23_Witness ==
    /\ ResolutionFailed /\ run.cmd = "publish" /\ last.out.msg = "unknown"
    /\ run.pc = "idle"

\* Each of the three errors happens in start, and debug meets the third.
StartConflictAborted ==
    ResolutionFailed /\ run.cmd = "start" /\ last.out.msg = "conflict"

DebugNoImageAborted ==
    ResolutionFailed /\ run.cmd = "debug" /\ last.out.msg = "noimage"

\* C24: publish never changes the user's notebook, whatever its options,
\* whether it succeeds or fails and at whatever step: every step of a
\* publish leaves the notebook file as it was, and the metadata publish
\* writes is in the temporary copy.
C24_PublishKeepsNotebook ==
    [][run'.cmd = "publish" => nb' = nb]_vars

\* publish went through to the push with a copy whose metadata differs from
\* the notebook's.
C24_Witness ==
    /\ run.cmd = "publish" /\ run.pc = "idle" /\ run.status = "ok"
    /\ \E i \in 1..Len(StageNames) : StageNames[i] = "push"
    /\ run.tmp # None /\ run.tmp[1] # nb
    /\ CliGet(run.tmp[1]).status = "ok" /\ CliGet(run.tmp[1]).uri = run.uri

\* A publish that failed after writing the metadata to its copy.
FailedPublishKeptNotebook ==
    /\ run.cmd = "publish" /\ run.pc = "idle" /\ run.status # "ok"
    /\ run.tmp # None /\ run.tmp[1] # nb

\* The step in which start ends at a declined prompt.
Declined == run'.cmd = "start" /\ run'.status = "abort"

\* C27: if the user declines the confirmation prompt of start, nothing
\* changes: no notebook file is created, an existing notebook is left as it
\* was, and no build or container start is attempted.
C27_DeclineChangesNothing ==
    [][Declined => (nb' = nb /\ run'.exists = run.exists /\ run'.stages = <<>>
                       /\ run'.pc = "idle")]_vars

\* What holds of a declined start: nothing is created or built, and an
\* existing notebook is left as _add_notebook_metadata_cell made it before
\* the prompt, so unchanged only if it already had its metadata cell.
DeclineKeepsAllButTheAddedCell ==
    [][Declined => /\ run'.exists = run.exists /\ run'.stages = <<>> /\ run'.pc = "idle"
                   /\ nb' = (IF run.exists THEN CliAdd(nb) ELSE nb)
                   /\ (run.exists /\ HasTag(nb, CliTag)) => nb' = nb
                   /\ UserCellsOf(nb') = UserCellsOf(nb)]_vars

\* A declined start on an existing notebook that now has a cell more.
DeclinedWithCellAdded ==
    /\ run.cmd = "start" /\ run.status = "abort" /\ run.exists
    /\ HasTag(nb, CliTag) /\ CliGet(nb).uri = None

\* debug has resolved its image and both its builds have succeeded.
DebugBuilt == run.cmd = "debug" /\ run.pc = "container"

ContainerStarted(r) == \E i \in 1..Len(r.stages) : r.stages[i].stage = "container"

\* C28: debug reaches the container start whenever the resolution and both
\* builds succeed, with or without requirements for the notebook; the
\* container is started on a temporary copy of the debug notebook.
C28_DebugReachesContainer ==
    [][DebugBuilt => (ContainerStarted(run') /\ run'.tmp # None)]_vars

\* What holds: with requirements the container start is reached, on a copy
\* of the debug notebook to which the resolved image and the requirements
\* were written; without requirements debug crashes before it.
DebugStartsOnlyWithRequirements ==
    [][DebugBuilt =>
         IF run.reqs # None
         THEN /\ ContainerStarted(run') /\ run'.tmp # None
              /\ run'.tmp[1] = CliSet(TemplateNotebook, run.uri[1], run.reqs).nb
         ELSE /\ ~ContainerStarted(run') /\ run'.status = "crash"
              /\ run'.msg = "temp_dir_path"]_vars

\* debug of a notebook without requirements, both builds done, crashed.
DebugCrashedWithoutRequirements ==
    /\ run.cmd = "debug" /\ run.pc = "idle" /\ run.reqs = None
    /\ run.status = "crash" /\ run.msg = "temp_dir_path"
    /\ StageNames = <<"deps", "bake">> /\ run.failed = "" /\ run.image # None

\* debug of a notebook with requirements, container started.
DebugStartedWithRequirements ==
    /\ run.cmd = "debug" /\ run.reqs # None /\ ContainerStarted(run) /\ run.tmp # None

----------------------------------------------------------------------------
(* _set_notebook_metadata without new requirements, under Spec              *)

\* The step is a _set_notebook_metadata given no requirements (or one that
\* raised), on a notebook that has its metadata cell and reads back.
SetWithoutRequirements ==
    /\ impl = "cli" /\ last'.op = "set" /\ last'.req = None
    /\ HasTag(nb, CliTag) /\ CliGet(nb).status = "ok"

\* C26: _set_notebook_metadata without new requirements replaces the
\* recorded image URI and leaves the requirements stored in the notebook as
\* they were.
C26_SetKeepsStoredRequirements ==
    [][SetWithoutRequirements =>
          /\ last'.out.status = "ok"
          /\ CliGet(nb').status = "ok"
          /\ CliGet(nb').uri = last'.uri
          /\ CliGet(nb').req = CliGet(nb).req]_vars

\* What holds of such a step: if it returns, the cell's URI line is the new
\* URI between quotes and the cell's requirements evaluate to what they
\* did; if it raises, the notebook is as it was.
SetWithoutRequirementsKeepsThem ==
    [][SetWithoutRequirements =>
          IF last'.out.status = "ok"
          THEN /\ last'.uri # None
               /\ FirstTagged(nb', CliTag).img = FormatUriLine(last'.uri[1])
               /\ PyEvalReqExpr(FirstTagged(nb', CliTag).req).val = CliGet(nb).req
          ELSE nb' = nb]_vars

\* Stored requirements are replaced when new ones are supplied.
SetWithRequirementsReplacesThem ==
    [][(impl = "cli" /\ last'.op = "set" /\ last'.req # None /\ HasTag(nb, CliTag))
          => FirstTagged(nb', CliTag).req = JsonDumpsReq(last'.req[1])]_vars

\* A notebook with stored requirements was given a new URI and no
\* requirements, and still stores them.
SetKeptStoredRequirements ==
    /\ impl = "cli" /\ last.op = "set" /\ last.req = None /\ last.out.status = "ok"
    /\ CliGet(nb).status = "ok" /\ CliGet(nb).req # None /\ CliGet(nb).uri = last.uri

----------------------------------------------------------------------------
(* Properties of backend_toggle, under SpecToggle                           *)

MethodNames == {ToggledMethods[i] : i \in 1..Len(ToggledMethods)}

Imported == run.pc \in {"ready", "failed"}

\* C30: after any call of a toggled method, whether it returns or raises,
\* GARDEN_ENDPOINT and BackendClient._call are what they were before the
\* call, so that later calls of methods that are not toggled go to the
\* original endpoint without a trailing slash; and a method that is not
\* named in GARDEN_BACKEND_TOGGLES, or any method under an unrecognized
\* GARDEN_ENV, is returned unwrapped by the decorator.
C30_ToggleRestores ==
    /\ \A i \in 1..Len(run.calls) :
          /\ run.calls[i].after = run.calls[i].before
          /\ run.calls[i].kind = "plain" =>
                run.requests[i] = <<GARDEN_ENDPOINT, Resource(run.calls[i].m)>>
    /\ Imported =>
          \A m \in MethodNames :
             (m \notin run.toggles \/ ~Recognized(run.env)) => run.method[m].kind = "plain"

\* What holds.  Every call leaves the endpoint and _call as they were, and
\* only wrapped methods go to the new backend, with a trailing slash.
CallsRestore ==
    \A i \in 1..Len(run.calls) :
       /\ run.calls[i].after = run.calls[i].before
       /\ run.calls[i].before = [endpoint |-> GARDEN_ENDPOINT, call |-> "_call"]
       /\ run.requests[i] =
             IF run.calls[i].kind = "wrapped"
             THEN <<env_url_mapping(run.env), Resource(run.calls[i].m), "/">>
             ELSE <<GARDEN_ENDPOINT, Resource(run.calls[i].m)>>

\* With an unrecognized GARDEN_ENV, or no method's name in the toggles, the
\* import succeeds and every method is the function as written.
UntoggledIsUnwrapped ==
    (Imported /\ (~Recognized(run.env)
                    \/ \A m \in MethodNames : ~NameInToggles(m, run.toggles)))
        => (run.pc = "ready" /\ \A m \in MethodNames : run.method[m].kind = "plain")

\* The first import with a recognized GARDEN_ENV and a method's name in the
\* toggles fails with NameError.
FirstToggledImportFails ==
    (Imported /\ run.imports = 1 /\ Recognized(run.env)
        /\ \E m \in MethodNames : NameInToggles(m, run.toggles))
        => (run.pc = "failed" /\ run.status = "NameError" /\ ~run.bound)

\* A first import that failed with a method toggled, leaving a method that
\* is not named in the toggles undefined.
ToggledImportFailed ==
    /\ run.pc = "failed" /\ run.imports = 1 /\ run.env = "dev"
    /\ run.toggles = {"upload_notebook"}
    /\ run.method["upload_notebook"].kind = "undefined"

\* After a reload, a wrapped method that raised, then a plain one that went
\* to the original endpoint.
WrappedRaisedThenPlain ==
    /\ Len(run.calls) = 2
    /\ run.calls[1].kind = "wrapped" /\ run.calls[1].raises
    /\ run.calls[2].kind = "plain"
    /\ run.requests[2] = <<GARDEN_ENDPOINT, Resource(run.calls[2].m)>>

====
